---- MODULE Spec2Model ----
(***************************************************************************)
(* State-machine model of the RouterSimulator network: Network, Router,    *)
(* Terminal, PacketBuffer, PageReassembler, Page, RoutingTable and the     *)
(* Dijkstra route computation.                                             *)
(*                                                                         *)
(* An IPAddress is its raw 16-bit value (router byte * 256 + terminal      *)
(* byte).  A packet is a record of the six Packet fields plus the history  *)
(* field heldSince: the tick at which its current holder took it (set by   *)
(* Router::receivePacket, Terminal::receivePacket and                      *)
(* PageReassembler::addPacket).  heldSince is read by no operation of the  *)
(* program; only the properties read it.                                   *)
(***************************************************************************)
EXTENDS Integers, Sequences, FiniteSets, TLC

\* ------------------------------------------------------------------ bounds
\* Network::simulate is run for MaxTick ticks, or for LongRun ticks on the
\* network that is followed until a quarantine has ended.
MaxTick == 5
LongRun == 7
\* The last tick before which the traffic source of the run followed to its
\* end calls sendPage.
SendUntil == 1
\* Total number of Terminal::sendPage calls made by the traffic source.
MaxPages == 2
\* Page lengths offered to sendPage are 1 .. MaxPageLen.
MaxPageLen == 2
\* Routers in the lists Dijkstra is run on by itself, and packets queued
\* on the one loaded link of such a list.
MaxRouters == 5
MaxLoad == 2
\* The two TTLs are tunable in the program (250 and 100 ticks); the model
\* runs them scaled down so that a reassembler times out within MaxTick
\* ticks and its quarantine ends within LongRun ticks.
MAX_ASSEMBLER_TTL == 2
PACKET_TTL == 2
\* A PacketBuffer taken by itself is built with a capacity in
\* 0 .. MaxCapacity and accepts at most MaxEnqueued packets in a run.
MaxCapacity == 3
MaxEnqueued == 4
\* Network::Config::complexity is 0 .. MaxComplexity where the construction
\* of a network is followed draw by draw.
MaxComplexity == 2
\* The expiry tick of a page that is to outlive the run.
FarExpiry == 100
\* A Terminal taken by itself is handed up to MaxGiven packets.
MaxGiven == 4
\* A PageReassembler taken by itself is built for 1 .. MaxSlots packets.
MaxSlots == 3

\* --------------------------------------------------------------- IPAddress
IP(r, t) == r * 256 + t
getRouterIP(ip) == ip \div 256
getTerminalIP(ip) == ip % 256
\* IPAddress{}: the default-constructed address, raw value 0.
InvalidIP == 0
isValid(ip) == ip # 0
isRouter(ip) == ip % 256 = 0

\* ------------------------------------------------------------------ Packet
Packet(pageID, pagePos, pageLen, srcIP, dstIP, expTick) ==
    [pageID |-> pageID, pagePos |-> pagePos, pageLen |-> pageLen,
     srcIP |-> srcIP, dstIP |-> dstIP, expTick |-> expTick, heldSince |-> 0]

Held(p, tick) == [p EXCEPT !.heldSince = tick]

\* ------------------------------------------------------------ PacketBuffer
\* A buffer is the sequence of its packets; its capacity is a parameter
\* (0 = unbounded).
isFull(buf, capacity) == IF capacity = 0 THEN FALSE ELSE Len(buf) >= capacity

\* availableSpace: numeric_limits<int>::max() when unbounded.
IntMax == 2147483647
availableSpace(buf, capacity) ==
    IF capacity = 0 THEN IntMax ELSE capacity - Len(buf)

\* enqueue refusing only a buffer that holds more than its capacity.
enqueueOverfull(buf, capacity, p) ==
    IF capacity # 0 /\ Len(buf) > capacity THEN [buf |-> buf, ok |-> FALSE]
    ELSE [buf |-> Append(buf, p), ok |-> TRUE]

\* enqueue returns the new buffer and whether the packet was accepted.
enqueue(buf, capacity, p) ==
    IF isFull(buf, capacity) THEN [buf |-> buf, ok |-> FALSE]
    ELSE [buf |-> Append(buf, p), ok |-> TRUE]

\* dequeue taking the packet at the back instead of the front.
dequeueBack(buf) ==
    IF buf = <<>> THEN [front |-> <<>>, buf |-> buf, thrown |-> TRUE]
    ELSE [front |-> <<buf[Len(buf)]>>, buf |-> SubSeq(buf, 1, Len(buf) - 1),
          thrown |-> FALSE]

\* dequeue returns the front packet (as a sequence of one) and the rest, or
\* throws runtime_error on an empty buffer.
dequeue(buf) ==
    IF buf = <<>> THEN [front |-> <<>>, buf |-> buf, thrown |-> TRUE]
    ELSE [front |-> <<Head(buf)>>, buf |-> Tail(buf), thrown |-> FALSE]

clear(buf) == <<>>

\* setCapacity without the test against the current size.
setCapacityUnchecked(buf, capacity, newCapacity) ==
    [capacity |-> newCapacity, thrown |-> FALSE]

\* setCapacity returns the capacity in force after the call, or throws
\* invalid_argument.
setCapacity(buf, capacity, newCapacity) ==
    IF newCapacity > 0 /\ Len(buf) > newCapacity
    THEN [capacity |-> capacity, thrown |-> TRUE]
    ELSE [capacity |-> newCapacity, thrown |-> FALSE]

\* removeAt(index), index counted from 0; throws out_of_range.
removeAt(buf, index) ==
    IF index >= Len(buf) THEN [buf |-> buf, thrown |-> TRUE]
    ELSE [buf |-> SubSeq(buf, 1, index) \o SubSeq(buf, index + 2, Len(buf)),
          thrown |-> FALSE]

\* ------------------------------------------------------------ RoutingTable
\* A table is the sequence of its Routes entries.
getNextHopIP(entries, destIP) ==
    LET routerIP == IP(getRouterIP(destIP), 0)
        hits == {i \in 1..Len(entries) : entries[i].destRouterIP = routerIP}
    IN IF hits = {} THEN InvalidIP
       ELSE entries[CHOOSE i \in hits : \A j \in hits : i <= j].nextHopIP

setNextHopIP(entries, destIP, nextHop) ==
    LET hits == {i \in 1..Len(entries) : entries[i].destRouterIP = destIP}
    IN IF hits = {}
       THEN Append(entries, [destRouterIP |-> destIP, nextHopIP |-> nextHop])
       ELSE LET k == CHOOSE i \in hits : \A j \in hits : i <= j
            IN [entries EXCEPT ![k].nextHopIP = nextHop]

\* ---------------------------------------------------------------- Dijkstra
\* INF is numeric_limits<size_t>::max(); the model uses the largest integer
\* TLC handles.  No finite distance of the model comes near it.
INF == 2147483647

\* ips: the router list (IPs in list order); usage[a][b]: the size of a's
\* output buffer toward neighbor b, defined exactly for a's connections.
getRouterIndex(ips, routerIP) ==
    LET hits == {i \in 1..Len(ips) : ips[i] = routerIP}
    IN IF hits = {} THEN 0 ELSE CHOOSE i \in hits : \A j \in hits : i <= j

\* findMinDistance returning the first unvisited router of finite distance,
\* whether or not its distance is the least.
findMinDistanceFirst(distances, routerCount) ==
    LET cand == {j \in 1..routerCount :
                    ~distances[j].visited /\ distances[j].distance < INF}
    IN IF cand = {} THEN 0 ELSE CHOOSE j \in cand : \A k \in cand : j <= k

\* Lowest index among the unvisited entries of least distance below INF;
\* 0 when there is none.
findMinDistance(distances, routerCount) ==
    LET cand == {j \in 1..routerCount :
                    ~distances[j].visited /\ distances[j].distance < INF}
        best == {j \in cand : \A k \in cand :
                    distances[j].distance <= distances[k].distance}
    IN IF cand = {} THEN 0 ELSE CHOOSE j \in best : \A k \in best : j <= k

\* The main loop body with the buffer load left out of the new distance.
RelaxUnweighted(ips, usage, distances, cur) ==
    LET curIP == ips[cur]
        nbrs == DOMAIN usage[curIP]
    IN [j \in DOMAIN distances |->
          IF j = cur THEN [distances[j] EXCEPT !.visited = TRUE]
          ELSE IF ips[j] \in nbrs /\ ~distances[j].visited
                  /\ distances[cur].distance < distances[j].distance
               THEN [distances[j] EXCEPT
                        !.distance = distances[cur].distance,
                        !.parent = curIP]
               ELSE distances[j]]

\* The main loop body replacing the parent of a neighbor on equal distance
\* too.
RelaxOnTies(ips, usage, distances, cur) ==
    LET curIP == ips[cur]
        nbrs == DOMAIN usage[curIP]
    IN [j \in DOMAIN distances |->
          IF j = cur THEN [distances[j] EXCEPT !.visited = TRUE]
          ELSE IF ips[j] \in nbrs /\ ~distances[j].visited
                  /\ distances[cur].distance + usage[curIP][ips[j]]
                        <= distances[j].distance
               THEN [distances[j] EXCEPT
                        !.distance = distances[cur].distance + usage[curIP][ips[j]],
                        !.parent = curIP]
               ELSE distances[j]]

\* One pass of the main loop body for the selected router: mark it visited
\* and relax each unvisited neighbor.
Relax(ips, usage, distances, cur) ==
    LET curIP == ips[cur]
        nbrs == DOMAIN usage[curIP]
    IN [j \in DOMAIN distances |->
          IF j = cur THEN [distances[j] EXCEPT !.visited = TRUE]
          ELSE IF ips[j] \in nbrs /\ ~distances[j].visited
                  /\ distances[cur].distance + usage[curIP][ips[j]]
                        < distances[j].distance
               THEN [distances[j] EXCEPT
                        !.distance = distances[cur].distance + usage[curIP][ips[j]],
                        !.parent = curIP]
               ELSE distances[j]]

RECURSIVE DijkstraLoop(_, _, _, _)
DijkstraLoop(ips, usage, distances, i) ==
    IF i >= Len(ips) THEN distances
    ELSE LET cur == findMinDistance(distances, Len(ips))
         IN IF cur = 0 THEN distances
            ELSE DijkstraLoop(ips, usage, Relax(ips, usage, distances, cur), i + 1)

\* The trace-back left out: the destination itself is stored as next hop.
TraceNextHopUntraced(ips, distances, sourceIP, currentIP, parentIP) == currentIP

\* Trace the parent chain back from a destination: the last router before
\* the source is the next hop.
RECURSIVE TraceNextHop(_, _, _, _, _)
TraceNextHop(ips, distances, sourceIP, currentIP, parentIP) ==
    IF parentIP = sourceIP THEN currentIP
    ELSE TraceNextHop(ips, distances, sourceIP, parentIP,
                      distances[getRouterIndex(ips, parentIP)].parent)

\* The table build stopping one router short of the end of the list.
RECURSIVE BuildTableShort(_, _, _, _, _)
BuildTableShort(ips, distances, sourceIndex, i, table) ==
    IF i >= Len(ips) THEN table
    ELSE IF i = sourceIndex \/ distances[i].distance = INF
         THEN BuildTableShort(ips, distances, sourceIndex, i + 1, table)
         ELSE BuildTableShort(ips, distances, sourceIndex, i + 1,
                setNextHopIP(table, ips[i],
                    TraceNextHop(ips, distances, ips[sourceIndex], ips[i],
                                 distances[i].parent)))

\* The table build: one entry per router other than the source whose
\* distance is below INF.
RECURSIVE BuildTable(_, _, _, _, _)
BuildTable(ips, distances, sourceIndex, i, table) ==
    IF i > Len(ips) THEN table
    ELSE IF i = sourceIndex \/ distances[i].distance = INF
         THEN BuildTable(ips, distances, sourceIndex, i + 1, table)
         ELSE BuildTable(ips, distances, sourceIndex, i + 1,
                setNextHopIP(table, ips[i],
                    TraceNextHop(ips, distances, ips[sourceIndex], ips[i],
                                 distances[i].parent)))

computeRoutingTable(ips, usage, sourceIP) ==
    LET sourceIndex == getRouterIndex(ips, sourceIP)
        init == [j \in 1..Len(ips) |->
                   IF j = sourceIndex
                   THEN [distance |-> 0, parent |-> sourceIP, visited |-> FALSE]
                   ELSE [distance |-> INF, parent |-> InvalidIP, visited |-> FALSE]]
        distances == DijkstraLoop(ips, usage, init, 0)
    IN BuildTable(ips, distances, sourceIndex, 1, <<>>)

\* -------------------------------------------------------------------- Page
\* Page::Page(List<Packet>&&): TRUE when the constructor accepts the list,
\* FALSE when it throws std::invalid_argument.
PageFromPackets(packets) ==
    /\ Len(packets) > 0
    /\ Len(packets) = packets[1].pageLen
    /\ \A i \in 1..Len(packets) :
          /\ packets[i].pageID = packets[1].pageID
          /\ packets[i].pageLen = packets[1].pageLen
          /\ packets[i].srcIP = packets[1].srcIP
          /\ packets[i].dstIP = packets[1].dstIP
          /\ packets[i].pagePos = i - 1

\* The fields Page::Page(List<Packet>&&) takes from the first packet.
PageFields(packets) ==
    [pageID |-> packets[1].pageID, pageLen |-> packets[1].pageLen,
     srcIP |-> packets[1].srcIP, dstIP |-> packets[1].dstIP]

\* Page::toPackets numbering the positions from 1.
toPacketsFromOne(pageID, pageLen, srcIP, dstIP, expTick) ==
    [i \in 1..pageLen |-> Packet(pageID, i, pageLen, srcIP, dstIP, expTick)]

\* Page::toPackets of Page(pageID, pageLen, srcIP, dstIP).
toPackets(pageID, pageLen, srcIP, dstIP, expTick) ==
    [i \in 1..pageLen |-> Packet(pageID, i - 1, pageLen, srcIP, dstIP, expTick)]

\* --------------------------------------------------------- PageReassembler
\* packets[i] is <<>> for a null slot and <<p>> for a filled one.
NewReassembler(id, length, expTick) ==
    [pageID |-> id, total |-> length, count |-> 0, expTick |-> expTick,
     packets |-> [i \in 0..(length - 1) |-> <<>>]]

\* addPacket without the test for an occupied slot.
addPacketOverwrite(ra, p, tick) ==
    IF \/ p.pageID # ra.pageID
       \/ p.pageLen # ra.total
       \/ p.pagePos >= ra.total
    THEN [ra |-> ra, ok |-> FALSE]
    ELSE [ra |-> [ra EXCEPT !.packets[p.pagePos] = <<Held(p, tick)>>,
                            !.count = @ + 1],
          ok |-> TRUE]

\* addPacket: the reassembler after the call and the returned flag.
addPacket(ra, p, tick) ==
    IF \/ p.pageID # ra.pageID
       \/ p.pageLen # ra.total
       \/ p.pagePos >= ra.total
       \/ ra.packets[p.pagePos] # <<>>
    THEN [ra |-> ra, ok |-> FALSE]
    ELSE [ra |-> [ra EXCEPT !.packets[p.pagePos] = <<Held(p, tick)>>,
                            !.count = @ + 1],
          ok |-> TRUE]

isComplete(ra) == ra.count = ra.total

\* package(): the ordered list; the reassembler is left with count 0 and
\* every slot null.
packageListBackward(ra) == [i \in 1..ra.total |-> ra.packets[ra.total - i][1]]
packageList(ra) == [i \in 1..ra.total |-> ra.packets[i - 1][1]]
packageReset(ra) ==
    [ra EXCEPT !.count = 0, !.packets = [i \in 0..(ra.total - 1) |-> <<>>]]

\* reset(): every slot null, count 0.
reset(ra) ==
    [ra EXCEPT !.count = 0, !.packets = [i \in 0..(ra.total - 1) |-> <<>>]]

\* =================================================================== state
VARIABLES
    cfg,          \* the Router::Config and Terminal::Config in force
    cRouters,     \* Network: the router list, IPs in insertion order
    routers,      \* router IP -> Router object
    terminals,    \* terminal IP -> Terminal object (owned by its router)
    currentTick,  \* Network::currentTick
    pc,           \* position inside Network::tick
    err,          \* "none", or the exception that left the last call
    buffer,       \* a PacketBuffer taken by itself: capacity and packets
    history,      \* of that buffer: the packets it accepted and the
                  \* packets dequeued from it, in call order, and how often
                  \* (0, 1, 2 or more) setCapacity switched it between
                  \* unbounded and bounded; read by the properties only
    reassembler,  \* a PageReassembler taken by itself
    trail,        \* of that reassembler: the last call made, the positions
                  \* accepted since the last package or reset, in call
                  \* order, the list the last package returned and the order
                  \* its positions had been accepted in; read by the
                  \* properties only
    page,         \* a Page taken by itself: the page built, the list
                  \* toPackets returned and what the list was built into
    ticked,       \* the Router::tick calls Network::tick has made since
                  \* construction, in call order: the router and the tick
                  \* value it was given; read by the properties only
    given,        \* of a Terminal taken by itself: how often each packet
                  \* has been handed to its receivePacket; read by the
                  \* properties only
    rt            \* a RoutingTable taken by itself: its entries, and for
                  \* each destination router the next hop of the last
                  \* setNextHopIP made for an address of that router (read
                  \* by the properties only)

\* The objects taken by themselves.
alone == <<buffer, history, reassembler, trail, page, rt, given>>

vars ==
    <<cfg, cRouters, routers, terminals, currentTick, pc, err, alone, ticked>>

\* The networks have no PacketBuffer outside their routers and terminals.
NoBuffer == [capacity |-> 0, packets |-> <<>>]
NoHistory == [enqueued |-> <<>>, dequeued |-> <<>>, switches |-> 0]
NoPage == [stage |-> "none"]
NoTable == [entries |-> <<>>, lastSet |-> <<>>]
NoTrail == [last |-> "new", added |-> <<>>, packaged |-> <<>>, order |-> <<>>]

\* ------------------------------------------------------------- helpers
RECURSIVE SumOver(_, _)
SumOver(f, S) ==
    IF S = {} THEN 0
    ELSE LET x == CHOOSE x \in S : TRUE IN f[x] + SumOver(f, S \ {x})

Range(s) == {s[i] : i \in 1..Len(s)}

\* The terminals a router owns, and the order in which tickTerminals visits
\* them (the map's iteration order; the model takes ascending terminal ID).
TerminalsOf(routerIP) ==
    {ip \in DOMAIN terminals : getRouterIP(ip) = getRouterIP(routerIP)}

RECURSIVE SortedSeq(_)
SortedSeq(S) ==
    IF S = {} THEN <<>>
    ELSE LET m == CHOOSE x \in S : \A y \in S : x <= y
         IN <<m>> \o SortedSeq(S \ {m})

TerminalOrder(routerIP) == SortedSeq(TerminalsOf(routerIP))

\* ------------------------------------------------------------------ Router
NewRouter(ip, neighbors) ==
    [routerIP |-> ip, routingTable |-> <<>>,
     inBuffer |-> <<>>, locBuffer |-> <<>>,
     outBuffer |-> [n \in neighbors |-> <<>>],
     packetsReceived |-> 0, packetsDropped |-> 0, packetsTimedOut |-> 0,
     packetsForwarded |-> 0, packetsDelivered |-> 0]

\* Router::connectRouter replacing an existing connection by a new one.
connectRouterReplace(R, neighborIP) ==
    IF neighborIP = R.routerIP THEN [R |-> R, inserted |-> FALSE]
    ELSE [R |-> [R EXCEPT !.outBuffer =
                    [n \in DOMAIN R.outBuffer \cup {neighborIP} |->
                        IF n = neighborIP THEN <<>> ELSE R.outBuffer[n]]],
          inserted |-> neighborIP \notin DOMAIN R.outBuffer]

\* Router::connectRouter(neighbor) on router object R, for a neighbor that
\* is not null: the router after the call and the value returned.
\* connections.try_emplace leaves an existing connection as it is.
connectRouter(R, neighborIP) ==
    IF neighborIP = R.routerIP THEN [R |-> R, inserted |-> FALSE]
    ELSE IF neighborIP \in DOMAIN R.outBuffer THEN [R |-> R, inserted |-> FALSE]
    ELSE [R |-> [R EXCEPT !.outBuffer =
                    [n \in DOMAIN R.outBuffer \cup {neighborIP} |->
                        IF n = neighborIP THEN <<>> ELSE R.outBuffer[n]]],
          inserted |-> TRUE]

\* Router::receivePacket without the packetsDropped++ of the overflow branch.
RouterReceivePacketUncounted(R, packet, tick) ==
    LET e == enqueue(R.inBuffer, cfg.inBufferCap, Held(packet, tick))
    IN [R EXCEPT !.packetsReceived = @ + 1, !.inBuffer = e.buf]

\* Router::receivePacket on router object R.
RouterReceivePacket(R, packet, tick) ==
    LET e == enqueue(R.inBuffer, cfg.inBufferCap, Held(packet, tick))
    IN [R EXCEPT !.packetsReceived = @ + 1,
                 !.inBuffer = e.buf,
                 !.packetsDropped = IF e.ok THEN @ ELSE @ + 1]

RECURSIVE RouterReceiveAll(_, _, _)
RouterReceiveAll(R, packets, tick) ==
    IF packets = <<>> THEN R
    ELSE RouterReceiveAll(RouterReceivePacket(R, Head(packets), tick),
                          Tail(packets), tick)

\* The router drains' expiry test with equality not counted as expired.
RouterExpiredStrict(packet, tick) == packet.expTick < tick

\* The expiry test of the three router drains: packet.getTimeout() <= tick.
RouterExpired(packet, tick) == packet.expTick <= tick

\* Router::processOutputBuffers with the loop test sent <= outBufferBW: one
\* packet more than the bandwidth is handed over.
RECURSIVE OutputLoopOneMore(_, _)
OutputLoopOneMore(acc, tick) ==
    IF ~(acc.sent <= cfg.outBW /\ acc.rest # <<>>) THEN acc
    ELSE LET packet == Head(acc.rest)
         IN IF RouterExpired(packet, tick)
            THEN OutputLoopOneMore([acc EXCEPT !.rest = Tail(@),
                                               !.timedOut = @ + 1], tick)
            ELSE OutputLoopOneMore([acc EXCEPT !.rest = Tail(@),
                                               !.passed = Append(@, packet),
                                               !.sent = @ + 1], tick)

\* Router::processOutputBuffers, the while loop over one connection's
\* buffer.  acc = [rest, passed, sent, timedOut].
RECURSIVE OutputLoop(_, _)
OutputLoop(acc, tick) ==
    IF ~(acc.sent < cfg.outBW /\ acc.rest # <<>>) THEN acc
    ELSE LET packet == Head(acc.rest)
         IN IF RouterExpired(packet, tick)
            THEN OutputLoop([acc EXCEPT !.rest = Tail(@),
                                        !.timedOut = @ + 1], tick)
            ELSE OutputLoop([acc EXCEPT !.rest = Tail(@),
                                        !.passed = Append(@, packet),
                                        !.sent = @ + 1], tick)

\* Router::routePacket without the count of the packets it cannot place.
routePacketSilent(R, packet) ==
    IF getRouterIP(packet.dstIP) = getRouterIP(R.routerIP)
    THEN [R EXCEPT !.locBuffer = enqueue(@, cfg.locBufferCap, packet).buf]
    ELSE LET nextHopIP == getNextHopIP(R.routingTable, packet.dstIP)
         IN IF nextHopIP \notin DOMAIN R.outBuffer
            THEN R
            ELSE [R EXCEPT !.outBuffer[nextHopIP] =
                              enqueue(@, cfg.outBufferCap, packet).buf]

\* Router::getOutputBuffer / Router::routePacket on router object R.
routePacket(R, packet) ==
    IF getRouterIP(packet.dstIP) = getRouterIP(R.routerIP)
    THEN LET e == enqueue(R.locBuffer, cfg.locBufferCap, packet)
         IN [R EXCEPT !.locBuffer = e.buf,
                      !.packetsDropped = IF e.ok THEN @ ELSE @ + 1]
    ELSE LET nextHopIP == getNextHopIP(R.routingTable, packet.dstIP)
         IN IF nextHopIP \notin DOMAIN R.outBuffer
            THEN [R EXCEPT !.packetsDropped = @ + 1]
            ELSE LET e == enqueue(R.outBuffer[nextHopIP], cfg.outBufferCap, packet)
                 IN [R EXCEPT !.outBuffer[nextHopIP] = e.buf,
                              !.packetsDropped = IF e.ok THEN @ ELSE @ + 1]

\* Router::processInputBuffer, the while loop.
RECURSIVE InputLoop(_, _, _)
InputLoop(R, processed, tick) ==
    IF ~(processed < cfg.inProcCap /\ R.inBuffer # <<>>) THEN R
    ELSE LET packet == Head(R.inBuffer)
             R1 == [R EXCEPT !.inBuffer = Tail(@)]
         IN IF RouterExpired(packet, tick)
            THEN InputLoop([R1 EXCEPT !.packetsTimedOut = @ + 1],
                           processed + 1, tick)
            ELSE InputLoop(routePacket(R1, packet), processed + 1, tick)

\* ---------------------------------------------------------------- Terminal
\* The field silenced is not a member of the class: it records how many
\* packets receivePacket has turned away for a quarantined page ID.
NewTerminal(ip) ==
    [terminalIP |-> ip, inBuffer |-> <<>>, outBuffer |-> <<>>,
     reassemblers |-> <<>>, quarantine |-> <<>>,
     pagesCreated |-> 0, pagesSent |-> 0, pagesOutDropped |-> 0,
     pagesCompleted |-> 0, pagesTimedOut |-> 0,
     packetsGenerated |-> 0, packetsSent |-> 0, packetsOutDropped |-> 0,
     packetsOutTimedOut |-> 0, packetsReceived |-> 0, packetsInTimedOut |-> 0,
     packetsInDropped |-> 0, packetsSuccProcessed |-> 0, nextPageID |-> 0,
     silenced |-> 0]

\* Terminal::sendPage enqueueing the packets that fit when the page does not.
sendPagePartial(T, length, destIP, expTick) ==
    LET packets == toPackets(T.nextPageID, length, T.terminalIP, destIP, expTick)
        numPackets == Len(packets)
        space == availableSpace(T.outBuffer, cfg.tOutBufferCap)
        T1 == [T EXCEPT !.nextPageID = @ + 1,
                        !.pagesCreated = @ + 1,
                        !.packetsGenerated = @ + numPackets]
    IN IF space < numPackets
       THEN [t |-> [T1 EXCEPT !.outBuffer = @ \o SubSeq(packets, 1, space),
                              !.pagesOutDropped = @ + 1,
                              !.packetsOutDropped = @ + numPackets - space],
             ok |-> FALSE]
       ELSE [t |-> [T1 EXCEPT !.outBuffer = @ \o packets,
                              !.pagesSent = @ + 1],
             ok |-> TRUE]

\* Terminal::sendPage counting pagesCreated only when the page is enqueued.
sendPageCreatedOnSuccess(T, length, destIP, expTick) ==
    LET packets == toPackets(T.nextPageID, length, T.terminalIP, destIP, expTick)
        numPackets == Len(packets)
        T1 == [T EXCEPT !.nextPageID = @ + 1,
                        !.packetsGenerated = @ + numPackets]
    IN IF availableSpace(T.outBuffer, cfg.tOutBufferCap) < numPackets
       THEN [t |-> [T1 EXCEPT !.pagesOutDropped = @ + 1,
                              !.packetsOutDropped = @ + numPackets],
             ok |-> FALSE]
       ELSE [t |-> [T1 EXCEPT !.outBuffer = @ \o packets,
                              !.pagesCreated = @ + 1,
                              !.pagesSent = @ + 1],
             ok |-> TRUE]

\* Terminal::sendPage: the terminal after the call and the returned flag.
sendPage(T, length, destIP, expTick) ==
    LET packets == toPackets(T.nextPageID, length, T.terminalIP, destIP, expTick)
        numPackets == Len(packets)
        T1 == [T EXCEPT !.nextPageID = @ + 1,
                        !.pagesCreated = @ + 1,
                        !.packetsGenerated = @ + numPackets]
    IN IF availableSpace(T.outBuffer, cfg.tOutBufferCap) < numPackets
       THEN [t |-> [T1 EXCEPT !.pagesOutDropped = @ + 1,
                              !.packetsOutDropped = @ + numPackets],
             ok |-> FALSE]
       ELSE [t |-> [T1 EXCEPT !.outBuffer = @ \o packets,
                              !.pagesSent = @ + 1],
             ok |-> TRUE]

\* Terminal::isIDQuarantined.
isIDQuarantined(T, id) ==
    \E i \in 1..Len(T.quarantine) : T.quarantine[i].pageID = id

\* Terminal::receivePacket without the quarantine test.
TerminalReceivePacketUnquarantined(T, packet, tick) ==
    LET T1 == [T EXCEPT !.packetsReceived = @ + 1]
        e == enqueue(T.inBuffer, cfg.tInBufferCap, Held(packet, tick))
    IN IF e.ok
       THEN [t |-> [T1 EXCEPT !.inBuffer = e.buf], ok |-> TRUE]
       ELSE [t |-> [T1 EXCEPT !.packetsInDropped = @ + 1], ok |-> FALSE]

\* Terminal::receivePacket: the terminal after the call and the returned flag.
TerminalReceivePacket(T, packet, tick) ==
    LET T1 == [T EXCEPT !.packetsReceived = @ + 1]
    IN IF isIDQuarantined(T, packet.pageID)
       THEN [t |-> [T1 EXCEPT !.packetsInTimedOut = @ + 1,
                              !.silenced = @ + 1],
             ok |-> FALSE]
       ELSE LET e == enqueue(T.inBuffer, cfg.tInBufferCap, Held(packet, tick))
            IN IF e.ok
               THEN [t |-> [T1 EXCEPT !.inBuffer = e.buf], ok |-> TRUE]
               ELSE [t |-> [T1 EXCEPT !.packetsInDropped = @ + 1], ok |-> FALSE]

\* Terminal::updateQuarantine with the comparison expTick < currentTick: an
\* entry outlives its expiry tick by one tick.
updateQuarantineLate(T, tick) ==
    LET Keep(q) == ~(q.expTick < tick)
    IN [T EXCEPT !.quarantine = SelectSeq(@, Keep)]

\* Terminal::updateQuarantine.
updateQuarantine(T, tick) ==
    LET Keep(q) == ~(q.expTick <= tick)
    IN [T EXCEPT !.quarantine = SelectSeq(@, Keep)]

\* Terminal::cleanupReassemblers.
RECURSIVE SumCount(_)
SumCount(ras) ==
    IF ras = <<>> THEN 0 ELSE Head(ras).count + SumCount(Tail(ras))

\* Terminal::cleanupReassemblers sweeping nothing.
cleanupReassemblersIdle(T, tick) == T

\* Terminal::cleanupReassemblers with the comparison expTick < currentTick:
\* a reassembler outlives its expiry tick by one tick.
cleanupReassemblersLate(T, tick) ==
    LET Gone(ra) == ra.expTick < tick
        Stay(ra) == ~Gone(ra)
        gone == SelectSeq(T.reassemblers, Gone)
    IN [T EXCEPT !.reassemblers = SelectSeq(@, Stay),
                 !.pagesTimedOut = @ + Len(gone),
                 !.packetsInTimedOut = @ + SumCount(gone),
                 !.quarantine = @ \o [i \in 1..Len(gone) |->
                        [pageID |-> gone[i].pageID,
                         expTick |-> tick + PACKET_TTL]]]

\* Terminal::cleanupReassemblers without the count of the packets the
\* swept reassemblers held.
cleanupReassemblersUncounted(T, tick) ==
    LET Gone(ra) == ra.expTick <= tick
        Stay(ra) == ~Gone(ra)
        gone == SelectSeq(T.reassemblers, Gone)
    IN [T EXCEPT !.reassemblers = SelectSeq(@, Stay),
                 !.pagesTimedOut = @ + Len(gone),
                 !.quarantine = @ \o [i \in 1..Len(gone) |->
                        [pageID |-> gone[i].pageID,
                         expTick |-> tick + PACKET_TTL]]]

\* Terminal::cleanupReassemblers: every reassembler whose expiry tick has
\* come is erased, counted and its page ID quarantined.
cleanupReassemblers(T, tick) ==
    LET Gone(ra) == ra.expTick <= tick
        Stay(ra) == ~Gone(ra)
        gone == SelectSeq(T.reassemblers, Gone)
    IN [T EXCEPT !.reassemblers = SelectSeq(@, Stay),
                 !.pagesTimedOut = @ + Len(gone),
                 !.packetsInTimedOut = @ + SumCount(gone),
                 !.quarantine = @ \o [i \in 1..Len(gone) |->
                        [pageID |-> gone[i].pageID,
                         expTick |-> tick + PACKET_TTL]]]

\* The expiry test of the two terminal drains: currentTick >= getExpTick().
TerminalExpired(packet, tick) == tick >= packet.expTick

\* Terminal::processOutputBuffer discarding expired packets without
\* counting them.
RECURSIVE TerminalOutputLoopSilent(_, _)
TerminalOutputLoopSilent(acc, tick) ==
    IF ~(acc.n < cfg.tOutputBW /\ acc.t.outBuffer # <<>>) THEN acc
    ELSE LET packet == Head(acc.t.outBuffer)
             T1 == [acc.t EXCEPT !.outBuffer = Tail(@)]
         IN IF TerminalExpired(packet, tick)
            THEN TerminalOutputLoopSilent([acc EXCEPT !.t = T1], tick)
            ELSE TerminalOutputLoopSilent(
                    [t |-> [T1 EXCEPT !.packetsSent = @ + 1],
                     r |-> RouterReceivePacket(acc.r, packet, tick),
                     n |-> acc.n + 1],
                    tick)

\* Terminal::processOutputBuffer, the while loop.  acc = [t, r, n]: the
\* terminal, its parent router and processedCount.
RECURSIVE TerminalOutputLoop(_, _)
TerminalOutputLoop(acc, tick) ==
    IF ~(acc.n < cfg.tOutputBW /\ acc.t.outBuffer # <<>>) THEN acc
    ELSE LET packet == Head(acc.t.outBuffer)
             T1 == [acc.t EXCEPT !.outBuffer = Tail(@)]
         IN IF TerminalExpired(packet, tick)
            THEN TerminalOutputLoop(
                    [acc EXCEPT !.t = [T1 EXCEPT !.packetsOutTimedOut = @ + 1]],
                    tick)
            ELSE TerminalOutputLoop(
                    [t |-> [T1 EXCEPT !.packetsSent = @ + 1],
                     r |-> RouterReceivePacket(acc.r, packet, tick),
                     n |-> acc.n + 1],
                    tick)

\* Terminal::findOrCreateReassembler: index of the reassembler to use in the
\* returned list, 0 for nullptr.
FindReassembler(ras, pageID) ==
    LET hits == {i \in 1..Len(ras) : ras[i].pageID = pageID}
    IN IF hits = {} THEN 0 ELSE CHOOSE i \in hits : \A j \in hits : i <= j

findOrCreateReassembler(ras, pageID, pageLength, expTick) ==
    LET it == FindReassembler(ras, pageID)
    IN IF it # 0
       THEN [ras |-> ras,
             idx |-> IF ras[it].total = pageLength THEN it ELSE 0]
       ELSE [ras |-> Append(ras, NewReassembler(pageID, pageLength, expTick)),
             idx |-> Len(ras) + 1]

RemoveAt(s, k) == [i \in 1..(Len(s) - 1) |-> IF i < k THEN s[i] ELSE s[i + 1]]

\* Terminal::handleCompletedPage: the terminal after the call; thrown is TRUE
\* when the Page constructor throws (the reassembler, already packaged,
\* stays in the list and pagesCompleted is not incremented).
handleCompletedPage(T, pageID) ==
    LET it == FindReassembler(T.reassemblers, pageID)
    IN IF it = 0 THEN [t |-> T, thrown |-> FALSE]
       ELSE LET packets == packageList(T.reassemblers[it])
                T1 == [T EXCEPT !.reassemblers[it] = packageReset(@)]
            IN IF ~PageFromPackets(packets)
               THEN [t |-> T1, thrown |-> TRUE]
               ELSE [t |-> [T1 EXCEPT !.pagesCompleted = @ + 1,
                                      !.reassemblers = RemoveAt(@, it)],
                     thrown |-> FALSE]

\* Terminal::processInputBuffer, the while loop.  Returns [t, thrown].
RECURSIVE TerminalInputLoop(_, _, _)
TerminalInputLoop(T, processedCount, tick) ==
    IF ~(processedCount < cfg.tInProcCap /\ T.inBuffer # <<>>)
    THEN [t |-> T, thrown |-> FALSE]
    ELSE
    LET packet == Head(T.inBuffer)
        T1 == [T EXCEPT !.inBuffer = Tail(@)]
        n == processedCount + 1
    IN IF TerminalExpired(packet, tick)
       THEN TerminalInputLoop([T1 EXCEPT !.packetsInTimedOut = @ + 1], n, tick)
       ELSE IF packet.dstIP # T.terminalIP
       THEN TerminalInputLoop([T1 EXCEPT !.packetsInDropped = @ + 1], n, tick)
       ELSE
       LET f == findOrCreateReassembler(T1.reassemblers, packet.pageID,
                                        packet.pageLen, tick + MAX_ASSEMBLER_TTL)
           T2 == [T1 EXCEPT !.reassemblers = f.ras]
       IN IF f.idx = 0
          THEN TerminalInputLoop([T2 EXCEPT !.packetsInTimedOut = @ + 1], n, tick)
          ELSE
          LET a == addPacket(T2.reassemblers[f.idx], packet, tick)
              T3 == [T2 EXCEPT !.reassemblers[f.idx] = a.ra]
          IN IF ~a.ok
             THEN TerminalInputLoop([T3 EXCEPT !.packetsInDropped = @ + 1], n, tick)
             ELSE IF ~isComplete(a.ra)
             THEN TerminalInputLoop(T3, n, tick)
             ELSE
             LET h == handleCompletedPage(
                        [T3 EXCEPT !.packetsSuccProcessed = @ + a.ra.total],
                        a.ra.pageID)
             IN IF h.thrown THEN h
                ELSE TerminalInputLoop(h.t, n, tick)

\* Terminal::tick with cleanupReassemblers run last instead of before the
\* two buffers are processed.
TerminalTickSweepLast(T, R, tick) ==
    LET T1 == updateQuarantine(T, tick)
        o == TerminalOutputLoop([t |-> T1, r |-> R, n |-> 0], tick)
        i == TerminalInputLoop(o.t, 0, tick)
    IN [t |-> cleanupReassemblers(i.t, tick), r |-> o.r, thrown |-> i.thrown]

\* Terminal::tick on terminal T with parent router R: [t, r, thrown].
TerminalTick(T, R, tick) ==
    LET T1 == cleanupReassemblers(updateQuarantine(T, tick), tick)
        o == TerminalOutputLoop([t |-> T1, r |-> R, n |-> 0], tick)
        i == TerminalInputLoop(o.t, 0, tick)
    IN [t |-> i.t, r |-> o.r, thrown |-> i.thrown]

\* Router::processLocalBuffer, the while loop.  acc = [r, ts, delivered]:
\* the router, the terminal objects and the delivered count.
RECURSIVE LocalLoop(_, _)
LocalLoop(acc, tick) ==
    IF ~(acc.delivered < cfg.locBW /\ acc.r.locBuffer # <<>>) THEN acc
    ELSE
    LET packet == Head(acc.r.locBuffer)
        R1 == [acc.r EXCEPT !.locBuffer = Tail(@)]
    IN IF RouterExpired(packet, tick)
       THEN LocalLoop([acc EXCEPT !.r = [R1 EXCEPT !.packetsTimedOut = @ + 1]],
                      tick)
       ELSE IF packet.dstIP \in DOMAIN acc.ts
                 /\ getRouterIP(packet.dstIP) = getRouterIP(acc.r.routerIP)
       THEN LocalLoop(
               [r |-> [R1 EXCEPT !.packetsDelivered = @ + 1],
                ts |-> [acc.ts EXCEPT ![packet.dstIP] =
                          TerminalReceivePacket(@, packet, tick).t],
                delivered |-> acc.delivered + 1],
               tick)
       ELSE LocalLoop([acc EXCEPT !.r = [R1 EXCEPT !.packetsDropped = @ + 1]],
                      tick)

\* ----------------------------------------------------------------- Network
\* Router::Config and Terminal::Config values the model is run with (the
\* t-prefixed fields are the terminal's), and the number of ticks
\* Network::simulate is run for.  Capacity 0 is unbounded.
\* Loose: nothing overflows; a terminal emits one packet per tick.
Loose ==
    [inBufferCap |-> 0, inProcCap |-> 2, locBufferCap |-> 0, locBW |-> 2,
     outBufferCap |-> 0, outBW |-> 2,
     tInBufferCap |-> 0, tInProcCap |-> 2, tOutBufferCap |-> 0, tOutputBW |-> 1,
     ticks |-> MaxTick]
\* Tight: the router's buffers and the terminal's output buffer overflow.
Tight ==
    [inBufferCap |-> 2, inProcCap |-> 2, locBufferCap |-> 1, locBW |-> 2,
     outBufferCap |-> 1, outBW |-> 1,
     tInBufferCap |-> 1, tInProcCap |-> 1, tOutBufferCap |-> 2, tOutputBW |-> 2,
     ticks |-> MaxTick]
\* Backlog: a terminal's input buffer fills faster than it is processed.
Backlog ==
    [inBufferCap |-> 0, inProcCap |-> 2, locBufferCap |-> 0, locBW |-> 2,
     outBufferCap |-> 0, outBW |-> 2,
     tInBufferCap |-> 2, tInProcCap |-> 1, tOutBufferCap |-> 0, tOutputBW |-> 2,
     ticks |-> MaxTick]

\* Patient: Loose, followed for LongRun ticks.
Patient == [Loose EXCEPT !.ticks = LongRun]

\* Narrow: nothing overflows, and every drain of a router gets more than
\* its quota lets through.
Narrow ==
    [inBufferCap |-> 0, inProcCap |-> 2, locBufferCap |-> 0, locBW |-> 1,
     outBufferCap |-> 0, outBW |-> 1,
     tInBufferCap |-> 0, tInProcCap |-> 2, tOutBufferCap |-> 0, tOutputBW |-> 2,
     ticks |-> MaxTick]

\* Ticks of the run in which every packet is followed to its end: a packet
\* expires 2 * PACKET_TTL ticks after the last sendPage at the latest, waits
\* behind at most every other packet for its dequeue, and a reassembler
\* opened before that lives MAX_ASSEMBLER_TTL ticks.
Horizon ==
    SendUntil + 2 * PACKET_TTL + MaxPages * MaxPageLen + MAX_ASSEMBLER_TTL

\* Steady: the Narrow quotas, all at least 1, for Horizon ticks.
Steady == [Narrow EXCEPT !.ticks = Horizon]

\* Crawl: nothing overflows, a router delivers one packet per tick to its
\* terminals and a terminal emits one packet per tick, followed for LongRun
\* ticks: the packets of a page reach their destination ticks apart.
Crawl == [Narrow EXCEPT !.tOutputBW = 1, !.ticks = LongRun]

\* Defaults: Router::Config() as the header defines it, every buffer
\* unbounded.  tInProcCap and tOutputBW are the terminal's two rates.
Defaults ==
    [inBufferCap |-> 0, inProcCap |-> 10, locBufferCap |-> 0, locBW |-> 10,
     outBufferCap |-> 0, outBW |-> 5,
     tInBufferCap |-> 0, tInProcCap |-> 10, tOutBufferCap |-> 0, tOutputBW |-> 5,
     ticks |-> MaxTick]

\* Network::Config values of the model, each with the configurations it is
\* run under.
NetworkChoices ==
    { [routerCount |-> 1, maxTerminalCount |-> 3, complexity |-> 0,
       configs |-> {Loose, Tight, Backlog}],
      [routerCount |-> 3, maxTerminalCount |-> 1, complexity |-> 0,
       configs |-> {Tight}] }

\* The link sets Network::connectMinimal and addAdditionalConnections can
\* leave behind: every router i >= 1 is linked to some router j < i, and
\* each router has started at most `complexity` further links.  A link is
\* the set of its two router IDs.
AllLinks(n) == {{a, b} : a \in 0..(n - 1), b \in 0..(n - 1)} \ {{a} : a \in 0..(n - 1)}

Topologies(n, complexity) ==
    {links \in SUBSET AllLinks(n) :
        \E tree \in SUBSET links :
            /\ \A i \in 1..(n - 1) : \E j \in 0..(i - 1) : {i, j} \in tree
            /\ Cardinality(tree) = n - 1
            /\ \E starter \in [links \ tree -> 0..(n - 1)] :
                  /\ \A l \in links \ tree : starter[l] \in l
                  /\ \A r \in 0..(n - 1) :
                        Cardinality({l \in links \ tree : starter[l] = r})
                            <= complexity}

\* Network::establishLink(rtrA, rtrB) on the routers rs.
establishLink(rs, a, b) ==
    IF a = b THEN rs
    ELSE [rs EXCEPT ![a] = connectRouter(rs[a], b).R,
                    ![b] = connectRouter(rs[b], a).R]

\* Network::connectMinimal drawing the partner of router i from 0 .. i.
connectedDistInclusive(i) == 0..i

\* Network::connectMinimal: the partners router i can draw,
\* uniform_int_distribution(0, i - 1).
connectedDist(i) == 0..(i - 1)

\* Network::addAdditionalConnections: the targets a router can draw,
\* uniform_int_distribution(0, routers.size() - 1).
dist(n) == 0..(n - 1)

\* Router::getNeighborBufferUsage for every connection of every router.
Usage(rs) ==
    [a \in DOMAIN rs |->
        [b \in DOMAIN rs[a].outBuffer |-> Len(rs[a].outBuffer[b])]]

\* Network::recalculateAllRoutes leaving out the last router of the list.
recalculateAllRoutesButLast(list, rs) ==
    [ip \in DOMAIN rs |->
        IF ip = list[Len(list)] /\ Len(list) > 1 THEN rs[ip]
        ELSE [rs[ip] EXCEPT
                !.routingTable = computeRoutingTable(list, Usage(rs), ip)]]

\* Network::recalculateAllRoutes.
recalculateAllRoutes(list, rs) ==
    [ip \in DOMAIN rs |->
        [rs[ip] EXCEPT !.routingTable = computeRoutingTable(list, Usage(rs), ip)]]

AddressBook == DOMAIN terminals

Start == [stage |-> "out", r |-> 1, k |-> 0]

\* Network::Network: generateRandomNetwork, then recalculateAllRoutes.
Setup(choices) ==
    \E net \in choices :
    \E links \in Topologies(net.routerCount, net.complexity) :
        LET list == [i \in 1..net.routerCount |-> IP(i - 1, 0)]
            built == [ip \in Range(list) |->
                        NewRouter(ip, {IP(b, 0) : b \in
                            {b \in 0..(net.routerCount - 1) :
                                {getRouterIP(ip), b} \in links}})]
        IN /\ cfg \in net.configs
           /\ cRouters = list
           /\ routers = recalculateAllRoutes(list, built)
           /\ terminals = [ip \in {IP(r, t) : r \in 0..(net.routerCount - 1),
                                              t \in 1..net.maxTerminalCount}
                              |-> NewTerminal(ip)]
           /\ currentTick = 1
           /\ pc = Start
           /\ err = "none"
           /\ buffer = NoBuffer
           /\ history = NoHistory
           /\ reassembler = <<>>
           /\ trail = NoTrail
           /\ page = NoPage
           /\ rt = NoTable
           /\ ticked = <<>>
           /\ given = <<>>

Init == Setup(NetworkChoices)

\* The network followed for LongRun ticks.
LongChoices ==
    { [routerCount |-> 1, maxTerminalCount |-> 3, complexity |-> 0,
       configs |-> {Patient}] }

InitLong == Setup(LongChoices)

\* The network whose router drains are all under pressure.
NarrowChoices ==
    { [routerCount |-> 2, maxTerminalCount |-> 2, complexity |-> 0,
       configs |-> {Narrow}] }

InitNarrow == Setup(NarrowChoices)

\* The network whose local deliveries queue up.
CrawlChoices ==
    { [routerCount |-> 1, maxTerminalCount |-> 3, complexity |-> 0,
       configs |-> {Crawl}] }

InitCrawl == Setup(CrawlChoices)

Me == cRouters[pc.r]

\* Router::processOutputBuffers without the count of the packets forwarded.
processOutputBuffersUncounted(rs, me, tick) ==
    LET R == rs[me]
        res == [n \in DOMAIN R.outBuffer |->
                  OutputLoop([rest |-> R.outBuffer[n], passed |-> <<>>,
                              sent |-> 0, timedOut |-> 0], tick)]
        timedOut == [n \in DOMAIN R.outBuffer |-> res[n].timedOut]
    IN [x \in DOMAIN rs |->
          IF x = me
          THEN [R EXCEPT
                  !.outBuffer = [n \in DOMAIN R.outBuffer |-> res[n].rest],
                  !.packetsTimedOut = @ + SumOver(timedOut, DOMAIN timedOut)]
          ELSE IF x \in DOMAIN R.outBuffer
          THEN RouterReceiveAll(rs[x], res[x].passed, tick)
          ELSE rs[x]]

\* Router::processOutputBuffers of router `me` in the router map rs: every
\* connection's buffer is drained and what passes is received by the
\* neighbor at the other end.
processOutputBuffers(rs, me, tick) ==
    LET R == rs[me]
        res == [n \in DOMAIN R.outBuffer |->
                  OutputLoop([rest |-> R.outBuffer[n], passed |-> <<>>,
                              sent |-> 0, timedOut |-> 0], tick)]
        timedOut == [n \in DOMAIN R.outBuffer |-> res[n].timedOut]
        sent == [n \in DOMAIN R.outBuffer |-> res[n].sent]
    IN [x \in DOMAIN rs |->
          IF x = me
          THEN [R EXCEPT
                  !.outBuffer = [n \in DOMAIN R.outBuffer |-> res[n].rest],
                  !.packetsTimedOut = @ + SumOver(timedOut, DOMAIN timedOut),
                  !.packetsForwarded = @ + SumOver(sent, DOMAIN sent)]
          ELSE IF x \in DOMAIN R.outBuffer
          THEN RouterReceiveAll(rs[x], res[x].passed, tick)
          ELSE rs[x]]

\* Router::tick, first stage: processOutputBuffers of the router at pc.r.
ProcessOutputBuffers ==
    /\ err = "none" /\ pc.stage = "out"
    /\ currentTick <= cfg.ticks
    /\ routers' = processOutputBuffers(routers, Me, currentTick)
    /\ ticked' = Append(ticked, [ip |-> Me, tick |-> currentTick])
    /\ pc' = [pc EXCEPT !.stage = "loc"]
    /\ UNCHANGED <<cfg, cRouters, terminals, currentTick, err, alone>>

\* Router::tick, second stage: processLocalBuffer.
ProcessLocalBuffer ==
    /\ err = "none" /\ pc.stage = "loc"
    /\ LET res == LocalLoop([r |-> routers[Me], ts |-> terminals,
                             delivered |-> 0], currentTick)
       IN /\ routers' = [routers EXCEPT ![Me] = res.r]
          /\ terminals' = res.ts
    /\ pc' = IF TerminalOrder(Me) = <<>>
             THEN [pc EXCEPT !.stage = "in"]
             ELSE [pc EXCEPT !.stage = "term", !.k = 1]
    /\ UNCHANGED <<cfg, cRouters, currentTick, err, alone, ticked>>

\* Router::tick, third stage: tickTerminals, one Terminal::tick per step.
\* An exception thrown inside it leaves simulate(): nothing runs after it.
TickTerminal ==
    /\ err = "none" /\ pc.stage = "term"
    /\ LET ip == TerminalOrder(Me)[pc.k]
           res == TerminalTick(terminals[ip], routers[Me], currentTick)
       IN /\ terminals' = [terminals EXCEPT ![ip] = res.t]
          /\ routers' = [routers EXCEPT ![Me] = res.r]
          /\ err' = IF res.thrown THEN "invalid_argument" ELSE "none"
    /\ pc' = IF pc.k < Len(TerminalOrder(Me))
             THEN [pc EXCEPT !.k = @ + 1]
             ELSE [pc EXCEPT !.stage = "in", !.k = 0]
    /\ UNCHANGED <<cfg, cRouters, currentTick, alone, ticked>>

\* Router::tick with processOutputBuffers run after processInputBuffer
\* instead of first.
ProcessInputBufferThenOutput ==
    /\ err = "none" /\ pc.stage = "in"
    /\ routers' = processOutputBuffers(
                     [routers EXCEPT ![Me] = InputLoop(@, 0, currentTick)],
                     Me, currentTick)
    /\ pc' = IF pc.r < Len(cRouters)
             THEN [stage |-> "out", r |-> pc.r + 1, k |-> 0]
             ELSE [stage |-> "end", r |-> pc.r, k |-> 0]
    /\ UNCHANGED <<cfg, cRouters, terminals, currentTick, err, alone, ticked>>

\* Router::tick, fourth stage: processInputBuffer.
ProcessInputBuffer ==
    /\ err = "none" /\ pc.stage = "in"
    /\ routers' = [routers EXCEPT ![Me] = InputLoop(@, 0, currentTick)]
    /\ pc' = IF pc.r < Len(cRouters)
             THEN [stage |-> "out", r |-> pc.r + 1, k |-> 0]
             ELSE [stage |-> "end", r |-> pc.r, k |-> 0]
    /\ UNCHANGED <<cfg, cRouters, terminals, currentTick, err, alone, ticked>>

\* The end of Network::tick with currentTick left as it was.
NetworkTickEndStuck ==
    /\ err = "none" /\ pc.stage = "end"
    /\ routers' = recalculateAllRoutes(cRouters, routers)
    /\ pc' = Start
    /\ UNCHANGED <<cfg, cRouters, terminals, currentTick, err, alone, ticked>>

\* Network::getStats: the currentTick field of the statistics.
StatsCurrentTick == currentTick - 1

\* Network::getStats: the packet counters of the statistics.
getStats ==
    LET R(f(_)) == SumOver([r \in DOMAIN routers |-> f(routers[r])],
                           DOMAIN routers)
        T(f(_)) == SumOver([t \in DOMAIN terminals |-> f(terminals[t])],
                           DOMAIN terminals)
        rDropped(r) == r.packetsDropped
        rTimedOut(r) == r.packetsTimedOut
        rPending(r) ==
            Len(r.inBuffer) + Len(r.locBuffer)
            + SumOver([n \in DOMAIN r.outBuffer |-> Len(r.outBuffer[n])],
                      DOMAIN r.outBuffer)
        tGenerated(t) == t.packetsGenerated
        tSent(t) == t.packetsSent
        tDropped(t) == t.packetsInDropped + t.packetsOutDropped
        tTimedOut(t) == t.packetsOutTimedOut + t.packetsInTimedOut
        tPending(t) == Len(t.inBuffer) + Len(t.outBuffer)
        tDelivered(t) == t.packetsSuccProcessed
    IN [currentTick |-> currentTick - 1,
        packetsGenerated |-> T(tGenerated),
        packetsSent |-> T(tSent),
        packetsDropped |-> R(rDropped) + T(tDropped),
        packetsTimedOut |-> R(rTimedOut) + T(tTimedOut),
        packetsInFlight |-> R(rPending) + T(tPending),
        packetsDelivered |-> T(tDelivered)]

\* The end of Network::tick inside simulate(1), the call Admin::runFor
\* makes: currentTick++, then recalculateAllRoutes (i % 5 == 0 at i = 0, and
\* again after the loop, to the same effect).
NetworkTickEnd ==
    /\ err = "none" /\ pc.stage = "end"
    /\ currentTick' = currentTick + 1
    /\ routers' = recalculateAllRoutes(cRouters, routers)
    /\ pc' = Start
    /\ UNCHANGED <<cfg, cRouters, terminals, err, alone, ticked>>

\* Offered expiry ticks: the traffic generator's currentTick + PACKET_TTL
\* and a longer one.
ExpiryChoices == {currentTick + PACKET_TTL, currentTick + 2 * PACKET_TTL}

TotalPages == SumOver([ip \in DOMAIN terminals |-> terminals[ip].pagesCreated],
                      DOMAIN terminals)

\* Terminal::sendPage called between two network ticks.
SendPageTo(src, dst) ==
    /\ err = "none" /\ pc = Start
    /\ currentTick <= cfg.ticks
    /\ TotalPages < MaxPages
    /\ \E length \in 1..MaxPageLen, expTick \in ExpiryChoices :
          terminals' = [terminals EXCEPT ![src] =
                           sendPage(@, length, dst, expTick).t]
    /\ UNCHANGED <<cfg, cRouters, routers, currentTick, pc, err, alone, ticked>>

\* Traffic as the generator makes it: to another terminal of the address book.
SendPage ==
    \E src \in AddressBook : \E dst \in AddressBook \ {src} : SendPageTo(src, dst)

\* Destinations outside the address book: a terminal no router owns, on an
\* existing router and on a router that does not exist.
OffBook == {IP(0, 9), IP(9, 1)}

SendPageOffBook ==
    \E src \in AddressBook : \E dst \in OffBook : SendPageTo(src, dst)

Next ==
    \/ ProcessOutputBuffers
    \/ ProcessLocalBuffer
    \/ TickTerminal
    \/ ProcessInputBuffer
    \/ NetworkTickEnd
    \/ SendPage

Spec == Init /\ [][Next]_vars

SpecLong == InitLong /\ [][Next]_vars

SpecNarrow == InitNarrow /\ [][Next]_vars

SpecCrawl == InitCrawl /\ [][Next]_vars

NextApi == Next \/ SendPageOffBook

SpecApi == Init /\ [][NextApi]_vars

\* ------------------------------------------ a run followed to its end
\* Three routers with one terminal each in every topology the constructor
\* can build with complexity 1, the triangle included, where the routes
\* change with the load.  Pages are sent before the first SendUntil ticks
\* and Network::simulate goes on calling Network::tick up to Horizon.
LiveChoices ==
    { [routerCount |-> 3, maxTerminalCount |-> 1, complexity |-> 1,
       configs |-> {Steady}] }

InitLive == Setup(LiveChoices)

SendPageEarly == currentTick <= SendUntil /\ SendPage

NextLive ==
    \/ ProcessOutputBuffers
    \/ ProcessLocalBuffer
    \/ TickTerminal
    \/ ProcessInputBuffer
    \/ NetworkTickEnd
    \/ SendPageEarly

\* simulate() goes on calling Network::tick, which runs the stages of every
\* router in turn: no stage that is due waits forever.  For Terminal::tick
\* and the end of Network::tick weak fairness is written out, the guard of
\* the action standing for ENABLED: the step is not due infinitely often,
\* or it is taken infinitely often.
TerminalTickDue == err = "none" /\ pc.stage = "term"

TickEndDue == err = "none" /\ pc.stage = "end"

TicksKeepComing ==
    /\ WF_vars(ProcessOutputBuffers)
    /\ WF_vars(ProcessLocalBuffer)
    /\ WF_vars(ProcessInputBuffer)
    /\ ([]<>(~TerminalTickDue) \/ []<><<TickTerminal>>_vars)
    /\ ([]<>(~TickEndDue) \/ []<><<NetworkTickEnd>>_vars)

SpecLive == InitLive /\ [][NextLive]_vars /\ TicksKeepComing

\* -------------------------------------------------- Dijkstra on its own
\* DijkstraAlgorithm::computeRoutingTable applied to router lists whose
\* state is chosen freely: MaxRouters routers with any set of links and
\* every output buffer empty, or MaxRouters - 1 routers with any set of links
\* and one output buffer holding up to MaxLoad packets.
Filler(a, b, K) ==
    [i \in 1..K |-> Packet(0, i - 1, K, IP(a, 1), IP(b, 1), 1 + PACKET_TTL)]

LoadedRouter(ip, n, links, load) ==
    [NewRouter(ip, {IP(b, 0) : b \in {b \in 0..(n - 1) :
                                        {getRouterIP(ip), b} \in links}})
        EXCEPT !.outBuffer =
            [nb \in DOMAIN @ |->
                IF load.from = ip /\ load.to = nb
                THEN Filler(getRouterIP(ip), getRouterIP(nb), load.K)
                ELSE <<>>]]

InitDijkstra ==
    \E n \in {MaxRouters - 1, MaxRouters} :
    \E links \in SUBSET AllLinks(n) :
    \E load \in [from : {IP(a, 0) : a \in 0..(n - 1)},
                 to : {IP(b, 0) : b \in 0..(n - 1)},
                 K : 0..MaxLoad] :
        /\ IF n = MaxRouters
           THEN load.K = 0 /\ load.from = IP(0, 0) /\ load.to = IP(0, 0)
           ELSE \/ load.K = 0 /\ load.from = IP(0, 0) /\ load.to = IP(0, 0)
                \/ load.K > 0 /\ {getRouterIP(load.from), getRouterIP(load.to)}
                                    \in links
        /\ cfg = Loose
        /\ cRouters = [i \in 1..n |-> IP(i - 1, 0)]
        /\ routers = [ip \in {IP(a, 0) : a \in 0..(n - 1)} |->
                         LoadedRouter(ip, n, links, load)]
        /\ terminals = << >>
        /\ currentTick = 1
        /\ pc = [stage |-> "routes", r |-> 0, k |-> 0]
        /\ err = "none"
        /\ buffer = NoBuffer
        /\ history = NoHistory
        /\ reassembler = <<>>
        /\ trail = NoTrail
        /\ page = NoPage
        /\ rt = NoTable
        /\ ticked = <<>>
        /\ given = <<>>

\* Network::recalculateAllRoutes, one router of the list per step.
SetRoutingTable ==
    /\ pc.stage = "routes" /\ pc.r < Len(cRouters)
    /\ routers' = [routers EXCEPT ![cRouters[pc.r + 1]].routingTable =
                      computeRoutingTable(cRouters, Usage(routers),
                                          cRouters[pc.r + 1])]
    /\ pc' = [pc EXCEPT !.r = @ + 1]
    /\ UNCHANGED <<cfg, cRouters, terminals, currentTick, err, alone, ticked>>

SpecDijkstra == InitDijkstra /\ [][SetRoutingTable]_vars

\* ------------------------------------------------ two routers, one page
\* Two routers built by hand with default configuration and one or two
\* terminals each, linked, routes computed; R1 = cRouters[1] is ticked
\* before R2 = cRouters[2].  The terminal rates are the router's defaults or
\* one packet per tick.
InitPair ==
    \E a \in 0..2, b \in 0..2, count \in 1..2, tIn \in {1, 10}, tOut \in {1, 5} :
        LET list == <<IP(a, 0), IP(b, 0)>>
            built == [ip \in {IP(a, 0), IP(b, 0)} |->
                        NewRouter(ip, {IP(a, 0), IP(b, 0)} \ {ip})]
        IN /\ a # b
           /\ cfg = [Defaults EXCEPT !.tInProcCap = tIn, !.tOutputBW = tOut]
           /\ cRouters = list
           /\ routers = recalculateAllRoutes(list, built)
           /\ terminals = [ip \in {IP(r, t) : r \in {a, b}, t \in 1..count}
                              |-> NewTerminal(ip)]
           /\ currentTick = 1
           /\ pc = Start
           /\ err = "none"
           /\ buffer = NoBuffer
           /\ history = NoHistory
           /\ reassembler = <<>>
           /\ trail = NoTrail
           /\ page = NoPage
           /\ rt = NoTable
           /\ ticked = <<>>
           /\ given = <<>>

\* Before tick 1 a terminal of R1 sends a page of one packet to a terminal of
\* R2; `page` keeps the Page that Terminal::sendPage built.
SendSinglePacketPage ==
    /\ err = "none" /\ pc = Start
    /\ currentTick = 1
    /\ page = NoPage
    /\ \E src \in TerminalsOf(cRouters[1]), dst \in TerminalsOf(cRouters[2]) :
          /\ terminals' = [terminals EXCEPT ![src] =
                              sendPage(@, 1, dst, FarExpiry).t]
          /\ page' = [stage |-> "sent",
                      built |-> [pageID |-> terminals[src].nextPageID,
                                 pageLen |-> 1, srcIP |-> src, dstIP |-> dst]]
    /\ UNCHANGED <<cfg, cRouters, routers, currentTick, pc, err, buffer,
                   history, reassembler, trail, rt, ticked, given>>

NextPair ==
    \/ SendSinglePacketPage
    \/ ProcessOutputBuffers
    \/ ProcessLocalBuffer
    \/ TickTerminal
    \/ ProcessInputBuffer
    \/ NetworkTickEnd

SpecPair == InitPair /\ [][NextPair]_vars

\* --------------------------------------------------- a Terminal by itself
\* A terminal with its parent router and nothing else, as the terminal
\* tests build it: packets are handed to receivePacket by hand, between
\* calls of Terminal::tick with successive tick values.
Dest == IP(5, 10)
Parent == IP(5, 0)
Senders == {IP(10, 20), IP(10, 21)}

\* The packets handed over: page 0 of either sender, of every length up to
\* MaxPageLen, every position, expiring late.
Offers ==
    LET All == {Packet(0, pos, len, src, Dest, FarExpiry) :
                  len \in 1..MaxPageLen, pos \in 0..(MaxPageLen - 1),
                  src \in Senders}
    IN {q \in All : q.pagePos < q.pageLen}

InitTerminal ==
    /\ cfg \in {Loose, Backlog}
    /\ cRouters = <<Parent>>
    /\ routers = [ip \in {Parent} |-> NewRouter(ip, {})]
    /\ terminals = [ip \in {Dest} |-> NewTerminal(ip)]
    /\ currentTick = 1
    /\ pc = [stage |-> "terminal", r |-> 0, k |-> 0]
    /\ err = "none"
    /\ given = [p \in Offers |-> 0]
    /\ ticked = <<>>
    /\ buffer = NoBuffer
    /\ history = NoHistory
    /\ reassembler = <<>>
    /\ trail = NoTrail
    /\ page = NoPage
    /\ rt = NoTable

TerminalRest ==
    <<cfg, cRouters, pc, ticked, buffer, history, reassembler, trail, page, rt>>

\* terminal.receivePacket(packet).
ReceivePacket ==
    /\ pc.stage = "terminal" /\ err = "none"
    /\ terminals[Dest].packetsReceived < MaxGiven
    /\ \E packet \in Offers :
          /\ terminals' = [terminals EXCEPT ![Dest] =
                              TerminalReceivePacket(@, packet, currentTick).t]
          /\ given' = [given EXCEPT ![packet] = @ + 1]
    /\ UNCHANGED <<routers, currentTick, err, TerminalRest>>

\* terminal.tick(currentTick), the next call with the next tick value.
TickTerminalAlone ==
    /\ pc.stage = "terminal" /\ err = "none"
    /\ currentTick <= cfg.ticks
    /\ LET res == TerminalTick(terminals[Dest], routers[Parent], currentTick)
       IN /\ terminals' = [terminals EXCEPT ![Dest] = res.t]
          /\ routers' = [routers EXCEPT ![Parent] = res.r]
          /\ err' = IF res.thrown THEN "invalid_argument" ELSE "none"
    /\ currentTick' = currentTick + 1
    /\ UNCHANGED <<given, TerminalRest>>

NextTerminal == ReceivePacket \/ TickTerminalAlone

SpecTerminal == InitTerminal /\ [][NextTerminal]_vars

\* ------------------------------------------- the construction of a Network
\* Network::Network followed draw by draw: generateRandomNetwork has added
\* the routers, connectMinimal and addAdditionalConnections draw their
\* partners one at a time, recalculateAllRoutes ends the construction.
\* pc.r and pc.k are the loop counters i and c.
AfterMinimal(n, complexity) ==
    IF complexity = 0 \/ n = 0
    THEN [stage |-> "recalculate", r |-> 0, k |-> 0, complexity |-> complexity]
    ELSE [stage |-> "additional", r |-> 0, k |-> 0, complexity |-> complexity]

InitBuild ==
    \E n \in 1..MaxRouters, complexity \in 0..MaxComplexity :
        /\ cfg = Loose
        /\ cRouters = [i \in 1..n |-> IP(i - 1, 0)]
        /\ routers = [ip \in {IP(a, 0) : a \in 0..(n - 1)} |-> NewRouter(ip, {})]
        /\ terminals = [ip \in {IP(a, 1) : a \in 0..(n - 1)} |-> NewTerminal(ip)]
        /\ currentTick = 1
        /\ pc = IF 1 < n
                THEN [stage |-> "minimal", r |-> 1, k |-> 0,
                      complexity |-> complexity]
                ELSE AfterMinimal(n, complexity)
        /\ err = "none"
        /\ buffer = NoBuffer
        /\ history = NoHistory
        /\ reassembler = <<>>
        /\ trail = NoTrail
        /\ page = NoPage
        /\ rt = NoTable
        /\ ticked = <<>>
        /\ given = <<>>

\* One pass of the loop of Network::connectMinimal.
ConnectMinimal ==
    /\ pc.stage = "minimal"
    /\ \E j \in connectedDist(pc.r) :
          routers' = establishLink(routers, IP(pc.r, 0), IP(j, 0))
    /\ pc' = IF pc.r + 1 < Len(cRouters)
             THEN [pc EXCEPT !.r = @ + 1]
             ELSE AfterMinimal(Len(cRouters), pc.complexity)
    /\ UNCHANGED <<cfg, cRouters, terminals, currentTick, err, alone, ticked>>

\* One pass of the inner loop of Network::addAdditionalConnections.
AddAdditionalConnection ==
    /\ pc.stage = "additional"
    /\ \E target \in dist(Len(cRouters)) :
          routers' = establishLink(routers, IP(pc.r, 0), IP(target, 0))
    /\ pc' = IF pc.k + 1 < pc.complexity THEN [pc EXCEPT !.k = @ + 1]
             ELSE IF pc.r + 1 < Len(cRouters)
                  THEN [pc EXCEPT !.r = @ + 1, !.k = 0]
                  ELSE [pc EXCEPT !.stage = "recalculate", !.r = 0, !.k = 0]
    /\ UNCHANGED <<cfg, cRouters, terminals, currentTick, err, alone, ticked>>

\* Network::recalculateAllRoutes at the end of the constructor.
RecalculateAllRoutes ==
    /\ pc.stage = "recalculate"
    /\ routers' = recalculateAllRoutes(cRouters, routers)
    /\ pc' = [pc EXCEPT !.stage = "built"]
    /\ UNCHANGED <<cfg, cRouters, terminals, currentTick, err, alone, ticked>>

NextBuild == ConnectMinimal \/ AddAdditionalConnection \/ RecalculateAllRoutes

SpecBuild == InitBuild /\ [][NextBuild]_vars

\* ------------------------------------------------ connecting routers by hand
\* MaxRouters - 2 routers, linked in pairs in any way, one output buffer
\* holding up to MaxLoad packets; then calls of Router::connectRouter and
\* Network::establishLink in any order.  pc holds the last call, its two
\* routers and, for connectRouter, the value returned.
InitLinks ==
    LET n == MaxRouters - 2
    IN \E links \in SUBSET AllLinks(n) :
       \E load \in [from : {IP(a, 0) : a \in 0..(n - 1)},
                    to : {IP(b, 0) : b \in 0..(n - 1)},
                    K : 0..MaxLoad] :
        /\ \/ load.K = 0 /\ load.from = IP(0, 0) /\ load.to = IP(0, 0)
           \/ load.K > 0 /\ {getRouterIP(load.from), getRouterIP(load.to)}
                               \in links
        /\ cfg = Loose
        /\ cRouters = [i \in 1..n |-> IP(i - 1, 0)]
        /\ routers = [ip \in {IP(a, 0) : a \in 0..(n - 1)} |->
                         LoadedRouter(ip, n, links, load)]
        /\ terminals = << >>
        /\ currentTick = 1
        /\ pc = [stage |-> "links", op |-> "none", r |-> 0, k |-> 0,
                 inserted |-> FALSE]
        /\ err = "none"
        /\ buffer = NoBuffer
        /\ history = NoHistory
        /\ reassembler = <<>>
        /\ trail = NoTrail
        /\ page = NoPage
        /\ rt = NoTable
        /\ ticked = <<>>
        /\ given = <<>>

\* a.connectRouter(&b).
ConnectRouter ==
    /\ pc.stage = "links"
    /\ \E a \in DOMAIN routers, b \in DOMAIN routers :
          LET call == connectRouter(routers[a], b)
          IN /\ routers' = [routers EXCEPT ![a] = call.R]
             /\ pc' = [stage |-> "links", op |-> "connectRouter", r |-> a,
                       k |-> b, inserted |-> call.inserted]
    /\ UNCHANGED <<cfg, cRouters, terminals, currentTick, err, alone, ticked>>

\* establishLink(&a, &b).
EstablishLink ==
    /\ pc.stage = "links"
    /\ \E a \in DOMAIN routers, b \in DOMAIN routers :
          /\ routers' = establishLink(routers, a, b)
          /\ pc' = [stage |-> "links", op |-> "establishLink", r |-> a,
                    k |-> b, inserted |-> FALSE]
    /\ UNCHANGED <<cfg, cRouters, terminals, currentTick, err, alone, ticked>>

NextLinks == ConnectRouter \/ EstablishLink

SpecLinks == InitLinks /\ [][NextLinks]_vars

\* ------------------------------------------------- a PacketBuffer by itself
\* PacketBuffer::PacketBuffer(capacity), then calls of its public methods
\* in any order.  An exception is caught by the caller: err holds the
\* outcome of the last call.
InitBuffer ==
    /\ buffer \in [capacity : 0..MaxCapacity, packets : {<<>>}]
    /\ history = NoHistory
    /\ reassembler = <<>>
    /\ trail = NoTrail
    /\ page = NoPage
    /\ rt = NoTable
    /\ ticked = <<>>
    /\ given = <<>>
    /\ cfg = Loose
    /\ cRouters = << >>
    /\ routers = << >>
    /\ terminals = << >>
    /\ currentTick = 1
    /\ pc = [stage |-> "buffer", r |-> 0, k |-> 0]
    /\ err = "none"

BufferRest ==
    <<cfg, cRouters, routers, terminals, currentTick, pc, reassembler, trail,
      page, rt, ticked, given>>

\* enqueue(packet): the packets offered are numbered in pagePos by the
\* number of packets accepted so far and come from one of two pages.
Enqueue ==
    /\ pc.stage = "buffer"
    /\ Len(history.enqueued) < MaxEnqueued
    /\ \E id \in 0..1 :
          LET p == Packet(id, Len(history.enqueued), MaxEnqueued,
                          IP(1, 1), IP(2, 1), 100)
              e == enqueue(buffer.packets, buffer.capacity, p)
          IN /\ buffer' = [buffer EXCEPT !.packets = e.buf]
             /\ history' = IF e.ok
                            THEN [history EXCEPT !.enqueued = Append(@, p)]
                            ELSE history
    /\ err' = "none"
    /\ UNCHANGED BufferRest

Dequeue ==
    /\ pc.stage = "buffer"
    /\ LET d == dequeue(buffer.packets)
       IN /\ buffer' = [buffer EXCEPT !.packets = d.buf]
          /\ history' = [history EXCEPT !.dequeued = @ \o d.front]
          /\ err' = IF d.thrown THEN "runtime_error" ELSE "none"
    /\ UNCHANGED BufferRest

RemoveAtIndex ==
    /\ pc.stage = "buffer"
    /\ \E index \in 0..MaxEnqueued :
          LET x == removeAt(buffer.packets, index)
          IN /\ buffer' = [buffer EXCEPT !.packets = x.buf]
             /\ err' = IF x.thrown THEN "out_of_range" ELSE "none"
    /\ UNCHANGED <<history, BufferRest>>

Clear ==
    /\ pc.stage = "buffer"
    /\ buffer' = [buffer EXCEPT !.packets = clear(@)]
    /\ err' = "none"
    /\ UNCHANGED <<history, BufferRest>>

SetCapacity ==
    /\ pc.stage = "buffer"
    /\ \E newCapacity \in 0..MaxCapacity :
          LET x == setCapacity(buffer.packets, buffer.capacity, newCapacity)
              switch == (buffer.capacity = 0) # (x.capacity = 0)
          IN /\ buffer' = [buffer EXCEPT !.capacity = x.capacity]
             /\ err' = IF x.thrown THEN "invalid_argument" ELSE "none"
             /\ history' = IF switch /\ history.switches < 2
                            THEN [history EXCEPT !.switches = @ + 1]
                            ELSE history
    /\ UNCHANGED BufferRest

NextBuffer == Enqueue \/ Dequeue \/ RemoveAtIndex \/ Clear \/ SetCapacity

SpecBuffer == InitBuffer /\ [][NextBuffer]_vars

\* enqueue and dequeue calls only.
NextQueue == Enqueue \/ Dequeue

SpecQueue == InitBuffer /\ [][NextQueue]_vars

\* ---------------------------------------------- a PageReassembler by itself
\* PageReassembler::PageReassembler(id, length, expTick), then calls of
\* addPacket, package and reset in any order.
InitReassembler ==
    /\ \E id \in 0..1, length \in 1..MaxSlots :
          reassembler = NewReassembler(id, length, 10)
    /\ trail = NoTrail
    /\ page = NoPage
    /\ rt = NoTable
    /\ ticked = <<>>
    /\ given = <<>>
    /\ buffer = NoBuffer
    /\ history = NoHistory
    /\ cfg = Loose
    /\ cRouters = << >>
    /\ routers = << >>
    /\ terminals = << >>
    /\ currentTick = 1
    /\ pc = [stage |-> "reassembler", r |-> 0, k |-> 0]
    /\ err = "none"

ReassemblerRest ==
    <<cfg, cRouters, routers, terminals, currentTick, pc, buffer, history,
      page, rt, ticked, given>>

\* The packets addPacket is called with: of either page ID, of any length
\* and position a Packet can have, from either of two senders.
Candidates ==
    LET All == {Packet(id, pos, len, IP(1, src), IP(2, 1), 10) :
                  id \in 0..1, len \in 1..MaxSlots,
                  pos \in 0..(MaxSlots - 1), src \in 1..2}
    IN {q \in All : q.pagePos < q.pageLen}

AddPacket ==
    /\ pc.stage = "reassembler"
    /\ \E p \in Candidates :
          LET a == addPacket(reassembler, p, currentTick)
          IN /\ reassembler' = a.ra
             /\ trail' = [trail EXCEPT
                            !.last = "addPacket",
                            !.added = IF a.ok THEN Append(@, p.pagePos) ELSE @]
    /\ err' = "none"
    /\ UNCHANGED ReassemblerRest

Package ==
    /\ pc.stage = "reassembler"
    /\ IF isComplete(reassembler)
       THEN /\ reassembler' = packageReset(reassembler)
            /\ trail' = [last |-> "package", added |-> <<>>,
                         packaged |-> packageList(reassembler),
                         order |-> trail.added]
            /\ err' = "none"
       ELSE /\ err' = "runtime_error"
            /\ trail' = [trail EXCEPT !.last = "package"]
            /\ UNCHANGED reassembler
    /\ UNCHANGED ReassemblerRest

Reset ==
    /\ pc.stage = "reassembler"
    /\ reassembler' = reset(reassembler)
    /\ trail' = [trail EXCEPT !.last = "reset", !.added = <<>>]
    /\ err' = "none"
    /\ UNCHANGED ReassemblerRest

NextReassembler == AddPacket \/ Package \/ Reset

SpecReassembler == InitReassembler /\ [][NextReassembler]_vars

\* ------------------------------------------------------------ a Page by itself
\* The addresses pages are built between: terminals, a router, the highest
\* address.
Endpoints == {IP(0, 1), IP(1, 0), IP(1, 1), IP(255, 255)}

\* Page::Page(pageID, pageLen, srcIP, dstIP) with valid endpoints.
InitPage ==
    /\ \E pageID \in 0..1, pageLen \in 1..MaxSlots,
          srcIP \in Endpoints, dstIP \in Endpoints :
          page = [stage |-> "built",
                  built |-> [pageID |-> pageID, pageLen |-> pageLen,
                             srcIP |-> srcIP, dstIP |-> dstIP]]
    /\ rt = NoTable
    /\ ticked = <<>>
    /\ given = <<>>
    /\ reassembler = <<>>
    /\ trail = NoTrail
    /\ buffer = NoBuffer
    /\ history = NoHistory
    /\ cfg = Loose
    /\ cRouters = << >>
    /\ routers = << >>
    /\ terminals = << >>
    /\ currentTick = 1
    /\ pc = [stage |-> "page", r |-> 0, k |-> 0]
    /\ err = "none"

PageRest ==
    <<cfg, cRouters, routers, terminals, currentTick, pc, buffer, history,
      reassembler, trail, rt, ticked, given>>

\* page.toPackets(expTick).
ToPackets ==
    /\ page.stage = "built"
    /\ \E expTick \in {0, PACKET_TTL} :
          page' = [stage |-> "split", built |-> page.built,
                   packets |-> toPackets(page.built.pageID, page.built.pageLen,
                                         page.built.srcIP, page.built.dstIP,
                                         expTick)]
    /\ UNCHANGED <<err, PageRest>>

\* Page(std::move(packets)).
FromPackets ==
    /\ page.stage = "split"
    /\ IF PageFromPackets(page.packets)
       THEN /\ page' = [stage |-> "rebuilt", built |-> page.built,
                        packets |-> page.packets,
                        rebuilt |-> PageFields(page.packets)]
            /\ err' = "none"
       ELSE /\ page' = [stage |-> "thrown", built |-> page.built,
                        packets |-> page.packets]
            /\ err' = "invalid_argument"
    /\ UNCHANGED PageRest

NextPage == ToPackets \/ FromPackets

SpecPage == InitPage /\ [][NextPage]_vars

\* ================================================================== claims
\* Packets a router still holds: input buffer, local buffer and every
\* neighbor output buffer.
RouterPending(R) ==
    Len(R.inBuffer) + Len(R.locBuffer)
        + SumOver([n \in DOMAIN R.outBuffer |-> Len(R.outBuffer[n])],
                  DOMAIN R.outBuffer)

\* C1: for every router, in every state (between ticks and between two
\* stages of one tick), packetsReceived equals packetsDropped +
\* packetsTimedOut + packetsForwarded + packetsDelivered plus the sizes of
\* its input buffer, its local buffer and all its neighbor output buffers.
C1_RouterConservation ==
    \A r \in DOMAIN routers :
        routers[r].packetsReceived =
            routers[r].packetsDropped + routers[r].packetsTimedOut
                + routers[r].packetsForwarded + routers[r].packetsDelivered
                + RouterPending(routers[r])

\* C1 witness: between two stages of a tick, a router that has dropped and
\* forwarded packets still holds some.
C1_Witness ==
    /\ pc.stage \in {"loc", "term", "in"}
    /\ \E r \in DOMAIN routers :
          /\ routers[r].packetsDropped > 0
          /\ routers[r].packetsForwarded > 0
          /\ RouterPending(routers[r]) > 0

\* The packets a drain took off the front of a buffer in a step, given the
\* buffer before and after (no step both drains and fills one buffer).
Removed(old, new) ==
    IF Len(new) < Len(old) THEN SubSeq(old, 1, Len(old) - Len(new)) ELSE <<>>

\* How many packets of a sequence have expiryTick <= tick.
ExpiredCount(packets, tick) ==
    Cardinality({i \in 1..Len(packets) : packets[i].expTick <= tick})

\* Every packet that was handed to a router, to a terminal or to a
\* reassembler was unexpired at the tick of the hand-over.
NoExpiredHeld ==
    /\ \A r \in DOMAIN routers : \A i \in 1..Len(routers[r].inBuffer) :
          routers[r].inBuffer[i].expTick > routers[r].inBuffer[i].heldSince
    /\ \A t \in DOMAIN terminals :
          /\ \A i \in 1..Len(terminals[t].inBuffer) :
                terminals[t].inBuffer[i].expTick > terminals[t].inBuffer[i].heldSince
          /\ \A k \in 1..Len(terminals[t].reassemblers) :
                \A pos \in DOMAIN terminals[t].reassemblers[k].packets :
                   \A p \in Range(terminals[t].reassemblers[k].packets[pos]) :
                      p.expTick > p.heldSince

\* What one step does with the expired packets it drains.
ExpiredDiscarded ==
    /\ \A r \in DOMAIN routers :
          routers'[r].packetsTimedOut - routers[r].packetsTimedOut =
              ExpiredCount(Removed(routers[r].inBuffer, routers'[r].inBuffer),
                           currentTick)
              + ExpiredCount(Removed(routers[r].locBuffer, routers'[r].locBuffer),
                             currentTick)
              + SumOver([n \in DOMAIN routers[r].outBuffer |->
                            ExpiredCount(Removed(routers[r].outBuffer[n],
                                                 routers'[r].outBuffer[n]),
                                         currentTick)],
                        DOMAIN routers[r].outBuffer)
    /\ \A t \in DOMAIN terminals :
          /\ terminals'[t].packetsOutTimedOut - terminals[t].packetsOutTimedOut =
                ExpiredCount(Removed(terminals[t].outBuffer,
                                     terminals'[t].outBuffer), currentTick)
          /\ terminals'[t].packetsInTimedOut - terminals[t].packetsInTimedOut >=
                ExpiredCount(Removed(terminals[t].inBuffer,
                                     terminals'[t].inBuffer), currentTick)

\* C2: no drain stage passes on a packet whose expiryTick is <= the current
\* tick: in every step, each packet drained with expiryTick <= currentTick
\* is counted in the drain's timedOut counter (the router's
\* packetsTimedOut, the terminal's packetsOutTimedOut or packetsInTimedOut),
\* and no packet that a router, a terminal or a reassembler holds after the
\* step was expired at the tick it was handed over.
C2_NoExpiredPassed == [][ExpiredDiscarded /\ NoExpiredHeld']_vars

\* C2 witness: a router drain and a terminal's output drain have each
\* discarded an expired packet while other packets were passed on and
\* reassembled.
C2_Witness ==
    /\ \E r \in DOMAIN routers : routers[r].packetsTimedOut > 0
    /\ \E t \in DOMAIN terminals : terminals[t].packetsOutTimedOut > 0
    /\ \E t \in DOMAIN terminals : terminals[t].packetsSuccProcessed > 0

\* The packets a step appended to a buffer.
Added(old, new) ==
    IF Len(new) > Len(old) THEN SubSeq(new, Len(old) + 1, Len(new)) ELSE <<>>

\* One step: whatever a router hands to a neighbor it accepted in an
\* earlier tick.  A packet leaving an output buffer unexpired was accepted
\* before currentTick, and a packet a router receives outside
\* tickTerminals comes from a neighbor's output buffer toward it, where it
\* lay since an earlier tick.
ForwardedNextTick ==
    /\ \A r \in DOMAIN routers : \A n \in DOMAIN routers[r].outBuffer :
          \A p \in Range(Removed(routers[r].outBuffer[n],
                                 routers'[r].outBuffer[n])) :
             p.expTick > currentTick => p.heldSince < currentTick
    /\ pc.stage # "term" =>
          \A x \in DOMAIN routers :
             \A p \in Range(Added(routers[x].inBuffer, routers'[x].inBuffer)) :
                \E y \in DOMAIN routers :
                   /\ x \in DOMAIN routers[y].outBuffer
                   /\ \E q \in Range(routers[y].outBuffer[x]) :
                         /\ Held(q, currentTick) = p
                         /\ q.heldSince < currentTick

\* C3: a packet that router R accepts through receivePacket while the
\* network is at tick T, from one of its terminals or from a neighbor
\* ticked before or after it, is not handed by R to a neighbor during tick
\* T: every packet handed to a neighbor was accepted in an earlier tick.
C3_NotForwardedSameTick == [][ForwardedNextTick]_vars

\* C3 witness: a router holds a packet that came through a transit router,
\* which accepted it from a neighbor and forwarded it later.
C3_Witness ==
    \E z \in DOMAIN routers : \E p \in Range(routers[z].inBuffer) :
        /\ IP(getRouterIP(p.srcIP), 0) # z
        /\ IP(getRouterIP(p.srcIP), 0) \notin DOMAIN routers[z].outBuffer

\* The packets the local drain of a step hands to terminal t: the unexpired
\* ones, addressed to t, among those taken off its router's local buffer.
Arrivals(t) ==
    LET r == IP(getRouterIP(t), 0)
        ForT(p) == p.expTick > currentTick /\ p.dstIP = t
    IN SelectSeq(Removed(routers[r].locBuffer, routers'[r].locBuffer), ForT)

\* Page ID id is silenced at terminal t: a reassembler for it was timed out
\* at a tick T whose quarantine, lasting until T + PACKET_TTL, is not over.
Silenced(t, id) ==
    \E i \in 1..Len(terminals[t].quarantine) :
        /\ terminals[t].quarantine[i].pageID = id
        /\ currentTick < terminals[t].quarantine[i].expTick

\* One step, for every terminal t:
\*  - when t's tick times a reassembler out, the page ID is quarantined
\*    until currentTick + PACKET_TTL;
\*  - a quarantine entry only leaves the list once its tick is reached;
\*  - each arriving packet of a silenced page ID adds one to
\*    packetsInTimedOut and is not put in the input buffer, the only way
\*    into a reassembler.
QuarantineSilence ==
    \A t \in DOMAIN terminals :
        /\ (pc.stage = "term" /\ TerminalOrder(Me)[pc.k] = t) =>
              \A k \in 1..Len(terminals[t].reassemblers) :
                 terminals[t].reassemblers[k].expTick <= currentTick =>
                    \E q \in Range(terminals'[t].quarantine) :
                       /\ q.pageID = terminals[t].reassemblers[k].pageID
                       /\ q.expTick = currentTick + PACKET_TTL
        /\ \A q \in Range(terminals[t].quarantine) :
              q \notin Range(terminals'[t].quarantine) => q.expTick <= currentTick
        /\ pc.stage = "loc" =>
              LET Hit(p) == Silenced(t, p.pageID)
              IN /\ terminals'[t].packetsInTimedOut
                       - terminals[t].packetsInTimedOut
                          = Len(SelectSeq(Arrivals(t), Hit))
                 /\ terminals'[t].packetsReceived - terminals[t].packetsReceived
                          = Len(Arrivals(t))
                 /\ \A p \in Range(Added(terminals[t].inBuffer,
                                         terminals'[t].inBuffer)) :
                       ~Silenced(t, p.pageID)

\* C4: after a terminal's tick at T times out a reassembler for page ID P,
\* every packet with page ID P that reaches the terminal's receivePacket
\* after that tick and before tick T + PACKET_TTL is rejected: it adds one
\* to packetsInTimedOut, is not enqueued in the input buffer and so never
\* reaches a reassembler.
C4_QuarantineSilence == [][QuarantineSilence]_vars

\* C4 witness: a terminal has turned away a packet of a page ID whose
\* quarantine is still running.
C4_Witness ==
    \E t \in DOMAIN terminals :
        /\ terminals[t].silenced > 0
        /\ terminals[t].pagesTimedOut > 0
        /\ \E q \in Range(terminals[t].quarantine) : currentTick < q.expTick

\* A page of `length` packets fits the free space of T's output buffer.
Fits(T, length) ==
    cfg.tOutBufferCap = 0 \/ cfg.tOutBufferCap - Len(T.outBuffer) >= length

\* The arguments sendPage is tried with on terminal t in a state.
SendArgs(t) ==
    [length : 1..MaxPageLen, destIP : AddressBook \ {t},
     expTick : {currentTick + PACKET_TTL}]

\* C5: a sendPage whose page does not fit entirely into the free space of
\* the terminal's output buffer returns false and leaves the output buffer
\* as it was, same packets in the same order; whatever the outcome, the
\* buffer gains either nothing or all packets of the page, in order.
\* Checked for every call that can be made between two network ticks.
C5_SendPageAtomic ==
    pc = Start =>
    \A t \in DOMAIN terminals : \A a \in SendArgs(t) :
        LET T == terminals[t]
            res == sendPage(T, a.length, a.destIP, a.expTick)
            gained == Added(T.outBuffer, res.t.outBuffer)
        IN /\ ~Fits(T, a.length) =>
                 ~res.ok /\ res.t.outBuffer = T.outBuffer
           /\ SubSeq(res.t.outBuffer, 1, Len(T.outBuffer)) = T.outBuffer
           /\ \/ gained = <<>>
              \/ /\ Len(gained) = a.length
                 /\ \A i \in 1..a.length :
                       /\ gained[i].pageID = T.nextPageID
                       /\ gained[i].pagePos = i - 1

\* C5 witness: a terminal whose output buffer still holds the one packet of
\* its first page has had its second page refused.
C5_Witness ==
    \E t \in DOMAIN terminals :
        /\ terminals[t].pagesOutDropped = 1
        /\ terminals[t].pagesSent = 1
        /\ terminals[t].packetsSent = 0
        /\ terminals[t].packetsOutTimedOut = 0
        /\ Len(terminals[t].outBuffer) = 1
        /\ ~Fits(terminals[t], MaxPageLen)

\* C6: Network.simulate never raises an error, whatever the topology and
\* the traffic: no exception ever leaves a tick.
C6_SimulateNeverRaises == err = "none"

\* ------------------------------------------------------- routing claims
Neighbors(x) == DOMAIN routers[x].outBuffer

\* Number of hops of a shortest path from a to b that enters no router of
\* `avoid`; -1 when there is none.
RECURSIVE Hops(_, _, _, _, _)
Hops(frontier, seen, target, d, avoid) ==
    IF target \in frontier THEN d
    ELSE IF frontier = {} THEN -1
    ELSE LET next == (UNION {Neighbors(x) : x \in frontier}) \ (seen \cup avoid)
         IN Hops(next, seen \cup next, target, d + 1, avoid)

HopDist(a, b, avoid) == Hops({a}, {a}, b, 0, avoid)

AllBuffersEmpty ==
    \A x \in DOMAIN routers : \A n \in Neighbors(x) : routers[x].outBuffer[n] = <<>>

\* The routers whose table the run has computed so far.
Computed == {cRouters[i] : i \in 1..pc.r}

HasEntry(table, dst) == \E i \in 1..Len(table) : table[i].destRouterIP = dst

\* C7 as stated: with every output buffer empty, the next hop stored for a
\* reachable destination lies on a path to it with the minimum number of
\* hops.
C7_MinHopNextHop ==
    AllBuffersEmpty =>
        \A src \in Computed : \A dst \in DOMAIN routers \ {src} :
            HopDist(src, dst, {}) > 0 =>
                LET nh == getNextHopIP(routers[src].routingTable, dst)
                IN /\ HasEntry(routers[src].routingTable, dst)
                   /\ nh \in Neighbors(src)
                   /\ 1 + HopDist(nh, dst, {}) = HopDist(src, dst, {})

\* C7, amended: with every output buffer empty, the next hop stored for a
\* reachable destination is a neighbor of the source from which the
\* destination is reached without coming back through the source, and it
\* is the destination itself when that is a neighbor; every path then
\* weighs 0 and the hop count plays no part.
C7_NextHopOnSomePath ==
    AllBuffersEmpty =>
        \A src \in Computed : \A dst \in DOMAIN routers \ {src} :
            HopDist(src, dst, {}) > 0 =>
                LET nh == getNextHopIP(routers[src].routingTable, dst)
                IN /\ HasEntry(routers[src].routingTable, dst)
                   /\ nh \in Neighbors(src)
                   /\ HopDist(nh, dst, {src}) >= 0
                   /\ dst \in Neighbors(src) => nh = dst

\* C7 witness: with all buffers empty, a computed table routes to a
\* destination two hops away over a neighbor that is two hops from it.
C7_Witness ==
    /\ AllBuffersEmpty
    /\ \E src \in Computed : \E dst \in DOMAIN routers \ {src} :
          /\ HopDist(src, dst, {}) = 2
          /\ HasEntry(routers[src].routingTable, dst)
          /\ HopDist(getNextHopIP(routers[src].routingTable, dst), dst, {src}) = 2

\* src-A-dst and src-B-dst are the only links, src's buffer toward A holds
\* packets and every other buffer is empty.
LoadedDiamond(src, A, B, dst) ==
    /\ DOMAIN routers = {src, A, B, dst}
    /\ Cardinality({src, A, B, dst}) = 4
    /\ Neighbors(src) = {A, B} /\ Neighbors(dst) = {A, B}
    /\ Neighbors(A) = {src, dst} /\ Neighbors(B) = {src, dst}
    /\ Len(routers[src].outBuffer[A]) >= 1
    /\ \A x \in DOMAIN routers : \A n \in Neighbors(x) :
          <<x, n>> # <<src, A>> => routers[x].outBuffer[n] = <<>>

\* C8: in a diamond src-A-dst, src-B-dst where src's output buffer toward A
\* holds K >= 1 packets and all other output buffers are empty,
\* computeRoutingTable for src stores B as the next hop for dst, wherever A
\* and B stand in the router list.
C8_LoadAvoidance ==
    \A src \in Computed : \A A, B, dst \in DOMAIN routers :
        LoadedDiamond(src, A, B, dst) =>
            /\ HasEntry(routers[src].routingTable, dst)
            /\ getNextHopIP(routers[src].routingTable, dst) = B

\* C8 witness: the table of src is computed in a loaded diamond whose
\* loaded neighbor A comes before B in the router list.
C8_Witness ==
    \E src \in Computed : \E A, B, dst \in DOMAIN routers :
        /\ LoadedDiamond(src, A, B, dst)
        /\ Len(routers[src].outBuffer[A]) = MaxLoad
        /\ getRouterIndex(cRouters, A) < getRouterIndex(cRouters, B)
        /\ getRouterIndex(cRouters, B) < getRouterIndex(cRouters, src)

\* C9: when a router routes a non-local packet whose destination router
\* has no entry in its routing table, the packet is enqueued in no output
\* buffer and packetsDropped grows by exactly one.  Checked on every packet
\* waiting in a router's input buffer.
C9_NoRouteDropped ==
    \A r \in DOMAIN routers : \A p \in Range(routers[r].inBuffer) :
        (/\ getRouterIP(p.dstIP) # getRouterIP(r)
         /\ ~HasEntry(routers[r].routingTable, IP(getRouterIP(p.dstIP), 0)))
        => /\ routePacket(routers[r], p).outBuffer = routers[r].outBuffer
           /\ routePacket(routers[r], p).packetsDropped
                 = routers[r].packetsDropped + 1

\* The counters of a terminal that sendPage does not touch.
OtherCounters(T) ==
    <<T.pagesCompleted, T.pagesTimedOut, T.packetsSent, T.packetsOutTimedOut,
      T.packetsReceived, T.packetsInTimedOut, T.packetsInDropped,
      T.packetsSuccProcessed>>

\* The counters sendPage is said to touch, as increments from T to U.
SendDelta(T, U) ==
    [pagesCreated |-> U.pagesCreated - T.pagesCreated,
     pagesSent |-> U.pagesSent - T.pagesSent,
     pagesDropped |-> U.pagesOutDropped - T.pagesOutDropped,
     packetsOutDropped |-> U.packetsOutDropped - T.packetsOutDropped,
     packetsGenerated |-> U.packetsGenerated - T.packetsGenerated]

\* C10 as stated: a sendPage(length, ...) that returns false increments
\* exactly pagesDropped by 1 and packetsOutDropped and packetsGenerated by
\* length; one that returns true increments exactly pagesCreated and
\* pagesSent by 1 and packetsGenerated by length.
C10_SendPageCounters ==
    pc = Start =>
    \A t \in DOMAIN terminals : \A a \in SendArgs(t) :
        LET T == terminals[t]
            res == sendPage(T, a.length, a.destIP, a.expTick)
        IN /\ OtherCounters(res.t) = OtherCounters(T)
           /\ res.ok = Fits(T, a.length)
           /\ SendDelta(T, res.t) =
                 IF res.ok
                 THEN [pagesCreated |-> 1, pagesSent |-> 1, pagesDropped |-> 0,
                       packetsOutDropped |-> 0, packetsGenerated |-> a.length]
                 ELSE [pagesCreated |-> 0, pagesSent |-> 0, pagesDropped |-> 1,
                       packetsOutDropped |-> a.length,
                       packetsGenerated |-> a.length]

\* C10, amended: a sendPage(length, ...) that returns false increments
\* exactly pagesCreated and pagesDropped by 1 and packetsOutDropped and
\* packetsGenerated by length; one that returns true increments exactly
\* pagesCreated and pagesSent by 1 and packetsGenerated by length.
C10_SendPageCountsCreated ==
    pc = Start =>
    \A t \in DOMAIN terminals : \A a \in SendArgs(t) :
        LET T == terminals[t]
            res == sendPage(T, a.length, a.destIP, a.expTick)
        IN /\ OtherCounters(res.t) = OtherCounters(T)
           /\ res.ok = Fits(T, a.length)
           /\ SendDelta(T, res.t) =
                 IF res.ok
                 THEN [pagesCreated |-> 1, pagesSent |-> 1, pagesDropped |-> 0,
                       packetsOutDropped |-> 0, packetsGenerated |-> a.length]
                 ELSE [pagesCreated |-> 1, pagesSent |-> 0, pagesDropped |-> 1,
                       packetsOutDropped |-> a.length,
                       packetsGenerated |-> a.length]

\* C10 witness: a terminal has had one page accepted and one refused, and
\* counts both as created.
C10_Witness ==
    \E t \in DOMAIN terminals :
        /\ terminals[t].pagesOutDropped = 1
        /\ terminals[t].pagesSent = 1
        /\ terminals[t].pagesCreated = 2
        /\ terminals[t].packetsOutDropped = MaxPageLen

\* ------------------------------------------------------ reassembly claims
\* The packets terminal t's input drain takes in a step and does not find
\* expired.
Processed(t) ==
    LET Live(p) == p.expTick > currentTick /\ p.dstIP = t
    IN SelectSeq(Removed(terminals[t].inBuffer, terminals'[t].inBuffer), Live)

\* A page is named by its source, its ID and its length.
PageOf(p) == [srcIP |-> p.srcIP, pageID |-> p.pageID, pageLen |-> p.pageLen]

\* The packets of page X that the reassemblers of terminal object T hold.
HeldOf(T, X) ==
    LET Slots(ra) == UNION {Range(ra.packets[pos]) : pos \in DOMAIN ra.packets}
    IN {p \in UNION {Slots(ra) : ra \in Range(T.reassemblers)} : PageOf(p) = X}

\* The pages whose last missing packets terminal t processes in a step:
\* every position is either held by a live reassembler already or among
\* the packets processed now, and at least one is processed now.
PagesDone(t) ==
    {X \in {PageOf(p) : p \in Range(Processed(t))} :
        \A pos \in 0..(X.pageLen - 1) :
            \/ \E p \in Range(Processed(t)) : PageOf(p) = X /\ p.pagePos = pos
            \/ \E p \in HeldOf(terminals[t], X) :
                  /\ p.pagePos = pos
                  /\ \E k \in 1..Len(terminals[t].reassemblers) :
                        /\ terminals[t].reassemblers[k].pageID = X.pageID
                        /\ terminals[t].reassemblers[k].expTick > currentTick}

\* C11: when all L packets of a page have reached the destination
\* terminal's input buffer unexpired and the last of them are processed
\* before the page's reassembler expires, whatever the order of positions
\* and the spread over ticks, pagesCompleted grows by exactly 1 for that
\* page, packetsSuccProcessed by exactly L, and no reassembler holds a
\* packet of the page afterwards.
C11_AllPacketsComplete ==
    [][\A t \in DOMAIN terminals :
          /\ terminals'[t].pagesCompleted - terminals[t].pagesCompleted
                = Cardinality(PagesDone(t))
          /\ terminals'[t].packetsSuccProcessed
                - terminals[t].packetsSuccProcessed
                = SumOver([X \in PagesDone(t) |-> X.pageLen], PagesDone(t))
          /\ \A X \in PagesDone(t) : HeldOf(terminals'[t], X) = {}]_vars

\* The terminal whose Terminal::tick the next step of the tick runs.
Ticking(t) == pc.stage = "term" /\ TerminalOrder(Me)[pc.k] = t

\* A reassembler is identified by its page ID and expiry tick.
RaKey(ra) == [pageID |-> ra.pageID, expTick |-> ra.expTick]
RaKeys(T) == {RaKey(ra) : ra \in Range(T.reassemblers)}

\* The reassemblers of terminal object T that have reached their expiry.
Overdue(T) ==
    LET Gone(ra) == ra.expTick <= currentTick
    IN SelectSeq(T.reassemblers, Gone)

ReassemblerLifetime(t) ==
    LET T == terminals[t]
        U == terminals'[t]
        gone == Overdue(T)
    IN \* created only by the terminal's tick, expiring MAX_ASSEMBLER_TTL later
       /\ \A k \in RaKeys(U) \ RaKeys(T) :
             Ticking(t) /\ k.expTick = currentTick + MAX_ASSEMBLER_TTL
       \* before its expiry tick a reassembler goes only by completion
       /\ \A ra \in Range(T.reassemblers) :
             ra.expTick > currentTick /\ RaKey(ra) \notin RaKeys(U)
                => \/ U.pagesCompleted > T.pagesCompleted
                   \/ err' # "none"
       /\ U.pagesTimedOut = T.pagesTimedOut + (IF Ticking(t) THEN Len(gone) ELSE 0)
       \* the tick at which it is overdue removes it, counts it and
       \* quarantines its page ID
       /\ Ticking(t) =>
             /\ \A i \in 1..Len(gone) :
                   /\ RaKey(gone[i]) \notin RaKeys(U)
                   /\ \E j \in 1..Len(U.quarantine) :
                         U.quarantine[j] = [pageID |-> gone[i].pageID,
                                            expTick |-> currentTick + PACKET_TTL]
             /\ U.packetsInTimedOut >= T.packetsInTimedOut + SumCount(gone)
             /\ U.inBuffer = T.inBuffer
                   => U.packetsInTimedOut = T.packetsInTimedOut + SumCount(gone)

\* No reassembler is left behind by the tick of its expiry.
NoStaleReassembler ==
    \A t \in DOMAIN terminals : \A ra \in Range(terminals[t].reassemblers) :
        /\ ra.expTick >= currentTick
        /\ ra.expTick = currentTick
              => \/ pc.stage \in {"out", "loc"}
                 \/ pc.stage = "term" /\ \E k \in pc.k..Len(TerminalOrder(Me)) :
                                            TerminalOrder(Me)[k] = t
                 \/ getRouterIP(t) > getRouterIP(Me)

\* C12: a reassembler created during the terminal tick at t and never
\* completed is removed by the terminal tick at t + MAX_ASSEMBLER_TTL and by
\* no earlier one; that removal adds 1 to pagesTimedOut and the number of
\* packets held to packetsInTimedOut, and quarantines the page ID until
\* currentTick + PACKET_TTL.
C12_ReassemblerTimeout ==
    [][(\A t \in DOMAIN terminals : ReassemblerLifetime(t))
       /\ NoStaleReassembler']_vars

\* A terminal has just timed out a reassembler that held a packet.
C12_Witness ==
    \E t \in DOMAIN terminals :
        /\ terminals[t].pagesTimedOut = 1
        /\ terminals[t].packetsInTimedOut >= 1
        /\ terminals[t].reassemblers = <<>>
        /\ \E j \in 1..Len(terminals[t].quarantine) :
              terminals[t].quarantine[j].expTick = currentTick + PACKET_TTL
        /\ currentTick > MAX_ASSEMBLER_TTL

\* The first n elements of a sequence, or all of it when it is shorter.
Take(seq, n) == SubSeq(seq, 1, IF n < Len(seq) THEN n ELSE Len(seq))

\* One step, for terminal t:
\*  - its tick removes every quarantine entry whose expiry tick is reached
\*    and no other entry;
\*  - the packets handed to it whose page ID has no quarantine entry are
\*    enqueued in the input buffer, in order, as far as the buffer has room,
\*    and the rest of them are counted in packetsInDropped.
QuarantineEnds(t) ==
    LET T == terminals[t]
        U == terminals'[t]
        Free(p) == ~isIDQuarantined(T, p.pageID)
        free == SelectSeq(Arrivals(t), Free)
        room == IF cfg.tInBufferCap = 0 THEN Len(free)
                ELSE cfg.tInBufferCap - Len(T.inBuffer)
    IN /\ Ticking(t) =>
            \A q \in Range(T.quarantine) :
                q.expTick <= currentTick <=> q \notin Range(U.quarantine)
       /\ pc.stage = "loc" =>
            /\ U.inBuffer = T.inBuffer \o
                  [i \in 1..Len(Take(free, room)) |->
                      Held(Take(free, room)[i], currentTick)]
            /\ U.packetsInDropped - T.packetsInDropped
                  = Len(free) - Len(Take(free, room))
            /\ U.quarantine = T.quarantine

\* No quarantine entry is left behind by the tick of its expiry.
NoStaleQuarantine ==
    \A t \in DOMAIN terminals : \A q \in Range(terminals[t].quarantine) :
        /\ q.expTick >= currentTick
        /\ q.expTick = currentTick
              => \/ pc.stage \in {"out", "loc"}
                 \/ pc.stage = "term" /\ \E k \in pc.k..Len(TerminalOrder(Me)) :
                                            TerminalOrder(Me)[k] = t
                 \/ getRouterIP(t) > getRouterIP(Me)

\* C13: a quarantine entry with expiry E is removed by the terminal tick at
\* E, the first whose currentTick is >= E, and a packet of that page ID
\* received after that tick, with no new timeout of the page ID in
\* between, is accepted into the input buffer like any other packet.
C13_QuarantineEnds ==
    [][(\A t \in DOMAIN terminals : QuarantineEnds(t))
       /\ NoStaleQuarantine']_vars

\* Every page of the run has page ID 0; a terminal that timed page 0 out
\* and has seen the quarantine end has, in this tick's local drain, taken
\* a packet of page 0 into its input buffer.
C13_Witness ==
    /\ pc.stage = "term" /\ pc.k = 1
    /\ \A u \in DOMAIN terminals : terminals[u].nextPageID <= 1
    /\ \E t \in DOMAIN terminals :
          /\ terminals[t].pagesTimedOut >= 1
          /\ terminals[t].quarantine = <<>>
          /\ \E i \in 1..Len(terminals[t].inBuffer) :
                /\ terminals[t].inBuffer[i].heldSince = currentTick
                /\ terminals[t].inBuffer[i].pageID = 0

\* The packets a reassembler holds.
PacketsIn(ra) == UNION {Range(ra.packets[pos]) : pos \in DOMAIN ra.packets}

\* One tick of terminal t: every reassembler that is overdue when the tick
\* starts is gone after it, counted with the packets it held at the start
\* and its page ID quarantined; a packet processed in the tick sits in a
\* reassembler that is not overdue, and one whose page ID is that of an
\* overdue reassembler has started a new reassembler (or completed a page).
SweepFirst(t) ==
    LET T == terminals[t]
        U == terminals'[t]
        gone == Overdue(T)
    IN /\ \A i \in 1..Len(gone) :
             /\ RaKey(gone[i]) \notin RaKeys(U)
             /\ \E j \in 1..Len(U.quarantine) :
                   U.quarantine[j] = [pageID |-> gone[i].pageID,
                                      expTick |-> currentTick + PACKET_TTL]
             /\ \A p \in Range(Processed(t)) :
                   p.pageID = gone[i].pageID
                      => \/ [pageID |-> p.pageID,
                             expTick |-> currentTick + MAX_ASSEMBLER_TTL]
                                \in RaKeys(U)
                         \/ U.pagesCompleted > T.pagesCompleted
                         \/ err' # "none"
       /\ U.pagesTimedOut = T.pagesTimedOut + Len(gone)
       /\ U.packetsInTimedOut >= T.packetsInTimedOut + SumCount(gone)
       /\ \A ra \in Range(U.reassemblers) :
             (\E p \in PacketsIn(ra) : p.heldSince = currentTick)
                => ra.expTick > currentTick

\* C14: within one terminal tick no packet processed in that tick is added
\* to a reassembler whose expiry tick is <= currentTick; every such
\* reassembler is timed out and its page ID quarantined before the output
\* and input buffers are processed in that tick.
C14_SweepBeforeProcessing ==
    [][\A t \in DOMAIN terminals : Ticking(t) => SweepFirst(t)]_vars

\* A terminal's tick has timed out the reassembler of a page ID and, in the
\* same tick, put a packet of that page ID in a new reassembler.
C14_Witness ==
    \E t \in DOMAIN terminals :
        \E q \in Range(terminals[t].quarantine) :
            /\ q.expTick = currentTick + PACKET_TTL
            /\ \E ra \in Range(terminals[t].reassemblers) :
                  /\ ra.pageID = q.pageID
                  /\ ra.expTick = currentTick + MAX_ASSEMBLER_TTL
                  /\ \E p \in PacketsIn(ra) : p.heldSince = currentTick

\* ------------------------------------------------------------ TTL claims
\* How many packets of a sequence, or of a set, are unexpired at currentTick.
LiveCount(packets) ==
    Cardinality({i \in 1..Len(packets) : packets[i].expTick > currentTick})

LiveHeld(T) ==
    SumOver([ra \in Range(T.reassemblers) |->
                Cardinality({p \in PacketsIn(ra) : p.expTick > currentTick})],
            Range(T.reassemblers))

\* One step of a tick.  Every packet a stage takes off a buffer is counted
\* by that stage, and by whoever it is handed to, so a counter other than a
\* timedOut counter can grow by no more than the number of unexpired
\* packets the stage took.  A reassembled packet is counted once more when
\* its page completes, so packetsInDropped and packetsSuccProcessed
\* together grow by no more than the unexpired packets the input drain
\* took or the reassemblers held, less those the reassemblers still hold.
OnlyLiveCounted ==
    LET R == routers[Me]
        S == routers'[Me]
        outLive == [n \in DOMAIN R.outBuffer |->
                      LiveCount(Removed(R.outBuffer[n], S.outBuffer[n]))]
    IN /\ pc.stage = "out" =>
            /\ S.packetsForwarded - R.packetsForwarded
                  <= SumOver(outLive, DOMAIN outLive)
            /\ S.packetsDropped = R.packetsDropped
            /\ S.packetsDelivered = R.packetsDelivered
            /\ \A n \in DOMAIN R.outBuffer :
                  routers'[n].packetsDropped - routers[n].packetsDropped
                      <= outLive[n]
       /\ pc.stage = "loc" =>
            /\ (S.packetsDelivered - R.packetsDelivered)
                  + (S.packetsDropped - R.packetsDropped)
                  <= LiveCount(Removed(R.locBuffer, S.locBuffer))
            /\ S.packetsForwarded = R.packetsForwarded
            /\ \A t \in DOMAIN terminals :
                  terminals'[t].packetsInDropped - terminals[t].packetsInDropped
                      <= Len(Arrivals(t))
       /\ pc.stage = "term" =>
            LET t == TerminalOrder(Me)[pc.k]
                T == terminals[t]
                U == terminals'[t]
                sentLive == LiveCount(Removed(T.outBuffer, U.outBuffer))
            IN /\ U.packetsSent - T.packetsSent <= sentLive
               /\ S.packetsDropped - R.packetsDropped <= sentLive
               /\ U.packetsOutDropped = T.packetsOutDropped
               /\ (U.packetsInDropped - T.packetsInDropped)
                     + (U.packetsSuccProcessed - T.packetsSuccProcessed)
                     <= LiveCount(Removed(T.inBuffer, U.inBuffer))
                        + LiveHeld(T) - LiveHeld(U)
       /\ pc.stage = "in" =>
            /\ S.packetsDropped - R.packetsDropped
                  <= LiveCount(Removed(R.inBuffer, S.inBuffer))
            /\ S.packetsForwarded = R.packetsForwarded
            /\ S.packetsDelivered = R.packetsDelivered

\* C15: once the current tick has reached a packet's expiry tick the packet
\* increments timedOut counters only: it is never counted in a dropped,
\* forwarded, delivered, packetsSent or packetsSuccProcessed counter.
C15_ExpiredOnlyTimedOut == [][pc' # pc => OnlyLiveCounted]_vars

\* C16: for every terminal at all times, packetsGenerated equals
\* packetsOutDropped plus the number of packets ever enqueued in its output
\* buffer: packetsGenerated = packetsOutDropped + packetsSent
\* + packetsOutTimedOut + the size of the output buffer.
C16_GeneratedAccounted ==
    \A t \in DOMAIN terminals :
        terminals[t].packetsGenerated
            = terminals[t].packetsOutDropped + terminals[t].packetsSent
              + terminals[t].packetsOutTimedOut + Len(terminals[t].outBuffer)

\* A terminal has had a page refused and has sent packets of another.
C16_Witness ==
    \E t \in DOMAIN terminals :
        /\ terminals[t].packetsOutDropped > 0
        /\ terminals[t].packetsSent > 0
        /\ terminals[t].packetsGenerated
              = terminals[t].packetsOutDropped + terminals[t].packetsSent

\* ------------------------------------------------------ bandwidth claims
\* new is what is left of old once packets have been taken off its head.
Suffix(old, new) ==
    /\ Len(new) <= Len(old)
    /\ new = SubSeq(old, Len(old) - Len(new) + 1, Len(old))

\* old with packets appended.
Extended(old, new) ==
    /\ Len(new) >= Len(old)
    /\ old = SubSeq(new, 1, Len(old))

\* One stage of the tick of router Me.
RouterQuota ==
    LET R == routers[Me]
        S == routers'[Me]
    IN /\ pc.stage = "out" =>
            \A n \in DOMAIN R.outBuffer :
               /\ routers'[n].packetsReceived - routers[n].packetsReceived
                     <= cfg.outBW
               /\ Len(Added(routers[n].inBuffer, routers'[n].inBuffer))
                     <= cfg.outBW
               /\ Suffix(R.outBuffer[n], S.outBuffer[n])
       /\ pc.stage = "loc" =>
            /\ SumOver([t \in DOMAIN terminals |->
                          terminals'[t].packetsReceived
                             - terminals[t].packetsReceived],
                       DOMAIN terminals) <= cfg.locBW
            /\ Suffix(R.locBuffer, S.locBuffer)
       /\ pc.stage = "in" =>
            /\ Len(Removed(R.inBuffer, S.inBuffer)) <= cfg.inProcCap
            /\ Suffix(R.inBuffer, S.inBuffer)
            /\ SumOver([n \in DOMAIN R.outBuffer |->
                          Len(Added(R.outBuffer[n], S.outBuffer[n]))],
                       DOMAIN R.outBuffer)
                  + Len(Added(R.locBuffer, S.locBuffer))
                  + (S.packetsDropped - R.packetsDropped) <= cfg.inProcCap
            /\ \A n \in DOMAIN R.outBuffer :
                  Extended(R.outBuffer[n], S.outBuffer[n])
            /\ Extended(R.locBuffer, S.locBuffer)

\* C17: in one tick a router hands at most outBW packets to each neighbor,
\* hands at most locBW packets in total to its local terminals and routes
\* at most inProcCap packets out of its input buffer; the packets beyond
\* the quota stay queued, in order, for later ticks.
C17_RouterQuota == [][pc' # pc => RouterQuota]_vars

\* Tick 3, router (0,0) has run its output and local drains.  Two pages of
\* two packets entered its input buffer together at tick 1; the local one
\* was routed at tick 1 and its packets were handed to the terminal one per
\* tick, the remote one was routed at tick 2 and router (1,0) has got
\* its first packet while the second is still queued toward it.
C17_Witness ==
    /\ currentTick = 3 /\ pc.stage = "term" /\ pc.r = 1 /\ pc.k = 1
    /\ IP(1, 0) \in DOMAIN routers
    /\ \E b \in Range(routers[IP(0, 0)].outBuffer[IP(1, 0)]) :
          /\ b.pagePos = 1 /\ b.heldSince = 1
          /\ \E c \in Range(routers[IP(1, 0)].inBuffer) :
                /\ PageOf(c) = PageOf(b)
                /\ c.pagePos = 0 /\ c.heldSince = 3
    /\ \E t \in TerminalsOf(IP(0, 0)) :
          \E a \in Range(terminals[t].inBuffer) :
             /\ a.pagePos = 1 /\ a.heldSince = 3
             /\ \E ra \in Range(terminals[t].reassemblers) :
                   \E d \in PacketsIn(ra) :
                      PageOf(d) = PageOf(a) /\ d.pagePos = 0 /\ d.heldSince = 2

\* C18: in one tick no drain stage removes more packets from a buffer than
\* its quota, expired packets included: at most outBW packets leave each
\* neighbor output buffer, at most locBW leave the local buffer, at most
\* outputBW leave a terminal's output buffer and at most inProcCap leave an
\* input buffer.
C18_DrainWithinQuota ==
    [][pc' # pc =>
         /\ pc.stage = "out" =>
               \A n \in DOMAIN routers[Me].outBuffer :
                  Len(Removed(routers[Me].outBuffer[n],
                              routers'[Me].outBuffer[n])) <= cfg.outBW
         /\ pc.stage = "loc" =>
               Len(Removed(routers[Me].locBuffer, routers'[Me].locBuffer))
                  <= cfg.locBW
         /\ pc.stage = "term" =>
               LET t == TerminalOrder(Me)[pc.k]
               IN /\ Len(Removed(terminals[t].outBuffer,
                                 terminals'[t].outBuffer)) <= cfg.tOutputBW
                  /\ Len(Removed(terminals[t].inBuffer,
                                 terminals'[t].inBuffer)) <= cfg.tInProcCap
         /\ pc.stage = "in" =>
               Len(Removed(routers[Me].inBuffer, routers'[Me].inBuffer))
                  <= cfg.inProcCap]_vars

\* ---------------------------------------------------- PacketBuffer claims
\* C19: for every PacketBuffer whose capacity is > 0, size <= capacity holds
\* after any sequence of enqueue, dequeue, removeAt, clear and setCapacity
\* calls, including setCapacity calls that switch between unbounded (0) and
\* a positive capacity or that are rejected.
C19_SizeWithinCapacity ==
    buffer.capacity > 0 => Len(buffer.packets) <= buffer.capacity

\* A buffer that has been switched between unbounded and bounded twice is
\* full, and the last call was a setCapacity that was rejected.
C19_Witness ==
    /\ buffer.capacity > 0
    /\ Len(buffer.packets) = buffer.capacity
    /\ history.switches = 2
    /\ err = "invalid_argument"

\* C20: for every PacketBuffer and every interleaving of enqueue and
\* dequeue calls, packets are dequeued in exactly the order in which they
\* were successfully enqueued, with no reordering, loss or duplication: the
\* packets dequeued so far followed by the packets still queued are the
\* packets accepted so far.
C20_FifoOrder == history.enqueued = history.dequeued \o buffer.packets

\* A buffer of capacity 1 has given out two packets and holds a third:
\* enqueue and dequeue calls have alternated.
C20_Witness ==
    /\ buffer.capacity = 1
    /\ Len(history.dequeued) >= 2
    /\ buffer.packets # <<>>

\* The packets enqueue is tried with on the buffer in a state.
Offered ==
    {Packet(id, Len(history.enqueued), MaxEnqueued, IP(1, 1), IP(2, 1), 100) :
        id \in 0..1}

\* C21: enqueue returns false exactly when the buffer is full (capacity > 0
\* and size = capacity) and then leaves the buffer unchanged; otherwise it
\* appends the packet at the tail and returns true; a buffer of capacity 0
\* never refuses a packet.
C21_EnqueueRefusesWhenFull ==
    \A p \in Offered :
        LET e == enqueue(buffer.packets, buffer.capacity, p)
            full == buffer.capacity > 0
                    /\ Len(buffer.packets) = buffer.capacity
        IN /\ e.ok <=> ~full
           /\ ~e.ok => e.buf = buffer.packets
           /\ e.ok => e.buf = buffer.packets \o <<p>>
           /\ buffer.capacity = 0 => e.ok

\* A bounded buffer has been filled by enqueue calls alone and is full.
C21_Witness ==
    /\ buffer.capacity > 1
    /\ Len(buffer.packets) = buffer.capacity
    /\ history.enqueued = buffer.packets
    /\ history.switches = 0

\* ------------------------------------------------- PageReassembler claims
\* The positions of the filled slots of a reassembler.
Filled(ra) == {i \in DOMAIN ra.packets : ra.packets[i] # <<>>}

\* C22: after any sequence of addPacket, package and reset calls, count
\* equals the number of filled slots, which are the distinct positions
\* accepted since the last package or reset, and each filled slot i holds a
\* packet with the reassembler's pageID, pageLen = total and position i;
\* addPacket for an already filled slot returns false and changes nothing.
C22_CountIsFilledSlots ==
    /\ reassembler.count = Cardinality(Filled(reassembler))
    /\ Filled(reassembler) = Range(trail.added)
    /\ Len(trail.added) = Cardinality(Range(trail.added))
    /\ \A i \in Filled(reassembler) :
          /\ reassembler.packets[i][1].pageID = reassembler.pageID
          /\ reassembler.packets[i][1].pageLen = reassembler.total
          /\ reassembler.packets[i][1].pagePos = i
    /\ \A p \in Candidates :
          p.pagePos \in Filled(reassembler)
             => addPacket(reassembler, p, currentTick)
                   = [ra |-> reassembler, ok |-> FALSE]

\* A reassembler for three packets that has been packaged once holds two
\* packets again, accepted out of order.
C22_Witness ==
    /\ reassembler.total = 3
    /\ trail.added = <<2, 0>>
    /\ trail.last = "addPacket"
    /\ Len(trail.packaged) = 3

\* C23: package() succeeds only when count = total; it then returns the
\* packets in position order 0 .. total-1 whatever order they were added
\* in, and leaves the reassembler empty (count 0, every slot empty) and
\* able to accept the same positions again; when count < total it fails
\* and changes nothing.
C23_PackageInOrder ==
    [][trail'.last = "package" =>
         IF reassembler.count = reassembler.total
         THEN /\ err' = "none"
              /\ Len(trail'.packaged) = reassembler.total
              /\ \A i \in 1..reassembler.total :
                    /\ trail'.packaged[i].pagePos = i - 1
                    /\ <<trail'.packaged[i]>> = reassembler.packets[i - 1]
                    /\ addPacket(reassembler', trail'.packaged[i],
                                 currentTick).ok
              /\ reassembler'.count = 0
              /\ Filled(reassembler') = {}
              /\ reassembler'.total = reassembler.total
              /\ reassembler'.pageID = reassembler.pageID
         ELSE /\ err' = "runtime_error"
              /\ reassembler' = reassembler]_vars

\* package has just returned three packets that had been accepted in the
\* order 2, 0, 1.
C23_Witness ==
    /\ trail.last = "package"
    /\ err = "none"
    /\ Len(trail.packaged) = 3
    /\ trail.order = <<2, 0, 1>>
    /\ reassembler.count = 0

\* ----------------------------------------------------- a RoutingTable by itself
\* The destinations given to setNextHopIP and getNextHopIP: two routers and a
\* terminal of each.
Destinations == {IP(1, 0), IP(1, 1), IP(2, 0), IP(2, 1)}
\* The next hops given to setNextHopIP.
NextHops == {IP(3, 0), IP(4, 0)}

\* RoutingTable(): no entries.
InitTable ==
    /\ rt = NoTable
    /\ ticked = <<>>
    /\ given = <<>>
    /\ page = NoPage
    /\ reassembler = <<>>
    /\ trail = NoTrail
    /\ buffer = NoBuffer
    /\ history = NoHistory
    /\ cfg = Loose
    /\ cRouters = << >>
    /\ routers = << >>
    /\ terminals = << >>
    /\ currentTick = 1
    /\ pc = [stage |-> "table", r |-> 0, k |-> 0]
    /\ err = "none"

TableRest ==
    <<cfg, cRouters, routers, terminals, currentTick, pc, err, buffer,
      history, reassembler, trail, page, ticked, given>>

\* rt.setNextHopIP(destIP, nextHop).
SetNextHopIP ==
    /\ pc.stage = "table"
    /\ \E destIP \in Destinations, nextHop \in NextHops :
          rt' = [entries |-> setNextHopIP(rt.entries, destIP, nextHop),
                    lastSet |-> [r \in DOMAIN rt.lastSet
                                           \cup {getRouterIP(destIP)} |->
                                    IF r = getRouterIP(destIP) THEN nextHop
                                    ELSE rt.lastSet[r]]]
    /\ UNCHANGED TableRest

SpecTable == InitTable /\ [][SetNextHopIP]_vars

\* -------------------------------------------------------------- Page claims
\* C24: for every pageID, every len >= 1, all valid endpoints s and d and
\* every expiry E, building a Page from the list returned by
\* Page(pageID, len, s, d).toPackets(E) succeeds and yields a page equal to
\* the original in pageID, pageLen, srcIP and dstIP.
C24_PageRoundTrip ==
    /\ page.stage # "thrown"
    /\ page.stage = "rebuilt" => page.rebuilt = page.built
    /\ page.stage = "split" =>
          /\ PageFromPackets(page.packets)
          /\ PageFields(page.packets) = page.built

\* A page of MaxSlots packets from the highest address has been split and
\* built again.
C24_Witness ==
    /\ page.stage = "rebuilt"
    /\ page.built.pageLen = MaxSlots
    /\ page.built.srcIP = IP(255, 255)
    /\ page.built.dstIP = IP(1, 0)
    /\ Len(page.packets) = MaxSlots

\* ------------------------------------------------------ RoutingTable claims
\* C25: after setNextHopIP(dst, nh), getNextHopIP(d) returns nh for every
\* address d whose router component equals that of dst, whatever the
\* terminal bytes of dst and d, until a later setNextHopIP for that
\* destination router replaces it; a destination router that was never set
\* yields the invalid IP.
C25_LookupPerDestinationRouter ==
    pc.stage = "table" =>
        \A d \in Destinations :
            getNextHopIP(rt.entries, d) =
                IF getRouterIP(d) \in DOMAIN rt.lastSet
                THEN rt.lastSet[getRouterIP(d)]
                ELSE InvalidIP

\* C26: the table computeRoutingTable(routers, src) returns has an entry
\* for router T if and only if T is not src and T is reachable from src by
\* following neighbor connections; for an unreachable router and for src
\* itself there is no entry and the lookup yields the invalid IP.
C26_EntryIffReachable ==
    pc.stage = "routes" =>
        \A src \in Computed : \A T \in DOMAIN routers :
            LET entries == routers[src].routingTable
            IN /\ HasEntry(entries, T) <=>
                      (T # src /\ HopDist(src, T, {}) > 0)
               /\ ~HasEntry(entries, T) =>
                      getNextHopIP(entries, T) = InvalidIP

\* The table of a router of MaxRouters routers is computed, with a router
\* two hops away that has an entry and a router out of reach that has none.
C26_Witness ==
    /\ pc.stage = "routes"
    /\ Len(cRouters) = MaxRouters
    /\ \E src \in Computed : \E far, lost \in DOMAIN routers \ {src} :
          /\ HopDist(src, far, {}) = 2
          /\ HasEntry(routers[src].routingTable, far)
          /\ HopDist(src, lost, {}) = 0 - 1
          /\ ~HasEntry(routers[src].routingTable, lost)

\* ----------------------------------------------------------- Network claims
\* C27: after the construction of a Network with routerCount >= 1 and any
\* complexity, whatever partners were drawn, every router reaches every
\* other router by following neighbor connections.
C27_BuiltConnected ==
    pc.stage = "built" =>
        \A a \in DOMAIN routers : \A b \in DOMAIN routers :
            HopDist(a, b, {}) >= 0

\* A network of MaxRouters routers is built with complexity MaxComplexity,
\* with a router of three neighbors and a router three hops from another.
C27_Witness ==
    /\ pc.stage = "built"
    /\ Len(cRouters) = MaxRouters
    /\ pc.complexity = MaxComplexity
    /\ \E a \in DOMAIN routers : Cardinality(Neighbors(a)) >= 3
    /\ \E a \in DOMAIN routers : \E b \in DOMAIN routers : HopDist(a, b, {}) = 3

\* connectRouter(b) on router a has nothing to insert.
Refused(a, b) == a = b \/ b \in Neighbors(a)

\* What a step of connectRouter or establishLink keeps.
ConnectionsKept ==
    /\ pc'.op = "connectRouter" /\ Refused(pc'.r, pc'.k) =>
          pc'.inserted = FALSE /\ routers' = routers
    /\ pc'.op = "establishLink" =>
          /\ Refused(pc'.r, pc'.k) => routers'[pc'.r] = routers[pc'.r]
          /\ Refused(pc'.k, pc'.r) => routers'[pc'.k] = routers[pc'.k]
    /\ \A a \in DOMAIN routers : a \notin DOMAIN routers'[a].outBuffer

\* C28: connectRouter(neighbor) returns false and leaves the router's
\* connections unchanged, the packets queued in the existing connection's
\* output buffer included, when neighbor is the router itself or is already
\* connected; so after any sequence of connectRouter and establishLink
\* calls no router lists itself as a neighbor, and each neighbor has one
\* connection (outBuffer has one value per neighbor).
C28_RefusedConnectChangesNothing ==
    [][pc.stage = "links" => ConnectionsKept]_vars

\* connectRouter has just returned false for a neighbor whose connection
\* holds MaxLoad queued packets, which are still there.
C28_Witness ==
    /\ pc.stage = "links"
    /\ pc.op = "connectRouter"
    /\ ~pc.inserted
    /\ pc.r # pc.k
    /\ pc.k \in Neighbors(pc.r)
    /\ Len(routers[pc.r].outBuffer[pc.k]) = MaxLoad

\* The Router::tick calls of `done` whole network ticks followed by the
\* first `part` calls of the next one: every router of the list in
\* insertion order, all of one network tick with the same tick value.
TickCalls(done, part) ==
    [i \in 1..(done * Len(cRouters) + part) |->
        [ip |-> cRouters[((i - 1) % Len(cRouters)) + 1],
         tick |-> ((i - 1) \div Len(cRouters)) + 1]]

\* C29: each Network.tick() ticks every router exactly once, in insertion
\* order and all with the same tick value, and then increases currentTick
\* by exactly one; so currentTick starts at 1, grows by one per tick of
\* simulate, never decreases, and getStats().currentTick is the number of
\* ticks completed since construction.
C29_TickOrder ==
    pc.stage \in {"out", "loc", "term", "in", "end"} =>
        /\ currentTick >= 1
        /\ ticked = TickCalls(currentTick - 1,
                              IF pc.stage = "out" THEN pc.r - 1 ELSE pc.r)
        /\ pc.stage = "end" => pc.r = Len(cRouters)
        /\ pc = Start =>
              Len(ticked) = StatsCurrentTick * Len(cRouters)

\* Three network ticks of a network of three routers are complete.
C29_Witness ==
    /\ pc = Start
    /\ Len(cRouters) = 3
    /\ StatsCurrentTick = 3
    /\ Len(ticked) = 9
    /\ ticked[9] = [ip |-> IP(2, 0), tick |-> 3]

\* Every drop and timeout counter of every router and terminal is 0.
NothingLost ==
    /\ \A r \in DOMAIN routers :
          routers[r].packetsDropped = 0 /\ routers[r].packetsTimedOut = 0
    /\ \A t \in DOMAIN terminals :
          /\ terminals[t].pagesOutDropped = 0
          /\ terminals[t].pagesTimedOut = 0
          /\ terminals[t].packetsOutDropped = 0
          /\ terminals[t].packetsOutTimedOut = 0
          /\ terminals[t].packetsInTimedOut = 0
          /\ terminals[t].packetsInDropped = 0

\* C30: with two linked routers R1 and R2 ticked in that order, routes
\* computed, default bandwidths and a single-packet page sent by a terminal
\* of R1 to a terminal of R2 before tick 1 with expiry far in the future,
\* three network ticks suffice for delivery: after tick 3 the destination
\* has pagesCompleted = 1, R1 has forwarded 1 packet, R2 has delivered 1
\* and every drop and timeout counter is 0.
C30_DeliveredInThreeTicks ==
    page.stage = "sent" /\ currentTick > 3 =>
        /\ terminals[page.built.dstIP].pagesCompleted = 1
        /\ terminals[page.built.srcIP].pagesSent = 1
        /\ routers[cRouters[1]].packetsForwarded = 1
        /\ routers[cRouters[2]].packetsDelivered = 1
        /\ NothingLost

\* Three ticks after the page was sent from a terminal of router 1 to the
\* second terminal of router 0, the second router ticked, the page is
\* complete there.
C30_Witness ==
    /\ page.stage = "sent"
    /\ currentTick = 4
    /\ pc = Start
    /\ cRouters = <<IP(1, 0), IP(0, 0)>>
    /\ page.built.dstIP = IP(0, 2)
    /\ terminals[IP(0, 2)].pagesCompleted = 1
    /\ terminals[IP(0, 1)].pagesCompleted = 0

\* ---------------------------------------------------------- Terminal claims
\* The pages of which a packet has been handed to the terminal.
PagesGiven == {PageOf(p) : p \in {q \in DOMAIN given : given[q] > 0}}

\* C31: after a terminal has completed a page of any length, receiving and
\* processing a further packet of that same page (a duplicate) never
\* increases pagesCompleted: no page is completed more than once, so the
\* terminal has completed at most as many pages as it was handed packets of.
C31_DuplicateNeverCompletes ==
    pc.stage = "terminal" =>
        terminals[Dest].pagesCompleted <= Cardinality(PagesGiven)

\* C32: while a pageID is in a terminal's quarantine list the terminal holds
\* no reassembler for that pageID: no packet of that pageID, the packets
\* already waiting in inBuf when the timeout fired included, creates a
\* fresh reassembler before the quarantine entry expires.
C32_NoReassemblerWhileQuarantined ==
    \A t \in DOMAIN terminals :
        \A k \in 1..Len(terminals[t].reassemblers) :
            ~isIDQuarantined(terminals[t], terminals[t].reassemblers[k].pageID)

\* ------------------------------------------------------ accounting claims
\* The packets the reassemblers of all terminals hold.
HeldInReassemblers ==
    SumOver([t \in DOMAIN terminals |-> SumCount(terminals[t].reassemblers)],
            DOMAIN terminals)

\* C33: at every tick boundary of a Network simulation no packet is
\* unaccounted for: stats.packetsGenerated = stats.packetsDropped
\* + stats.packetsTimedOut + stats.packetsInFlight + stats.packetsDelivered
\* + the number of packets currently held in reassemblers.
C33_NoPacketUnaccounted ==
    pc = Start =>
        getStats.packetsGenerated
            = getStats.packetsDropped + getStats.packetsTimedOut
              + getStats.packetsInFlight + getStats.packetsDelivered
              + HeldInReassemblers

\* At a tick boundary packets have been dropped, one is held in a
\* reassembler and one is still in flight.
C33_Witness ==
    /\ pc = Start
    /\ currentTick > 1
    /\ getStats.packetsDropped > 0
    /\ getStats.packetsInFlight > 0
    /\ HeldInReassemblers > 0

\* C34: for every terminal at all times, packetsReceived = packetsInDropped
\* + packetsInTimedOut + packetsSuccProcessed + the size of inBuf + the
\* number of packets held in its active reassemblers.
C34_ReceivedAccounted ==
    \A t \in DOMAIN terminals :
        terminals[t].packetsReceived
            = terminals[t].packetsInDropped + terminals[t].packetsInTimedOut
              + terminals[t].packetsSuccProcessed
              + Len(terminals[t].inBuffer)
              + SumCount(terminals[t].reassemblers)

\* The terminal has been handed MaxGiven packets: a page timed out in its
\* reassembler, a packet was refused for quarantine and a page is complete.
C34_Witness ==
    /\ pc.stage = "terminal"
    /\ terminals[Dest].packetsReceived = MaxGiven
    /\ terminals[Dest].pagesTimedOut > 0
    /\ terminals[Dest].silenced > 0
    /\ terminals[Dest].packetsSuccProcessed > 0

\* The sum of a terminal counter over all terminals.
Total(f(_)) ==
    SumOver([t \in DOMAIN terminals |-> f(terminals[t])], DOMAIN terminals)

\* C35: in a Network simulation every page accepted by sendPage has at most
\* one outcome at its destination: it is counted at most once in
\* pagesCompleted or pagesTimedOut, never in both and never twice, so
\* summed over all terminals pagesCompleted + pagesTimedOut <= pagesSent at
\* all times.
C35_OneOutcomePerPage ==
    LET completed(t) == t.pagesCompleted
        timedOut(t) == t.pagesTimedOut
        sent(t) == t.pagesSent
    IN Total(completed) + Total(timedOut) <= Total(sent)


\* The packets handed to the terminal so far.
Given == {q \in DOMAIN given : given[q] > 0}

\* Every packet was handed over once at most and each sender's packets are
\* those of one page: taken alone, each sender's packets are accepted.
EachSenderAloneAccepted ==
    /\ \A q \in Given : given[q] = 1
    /\ \A q1, q2 \in Given : q1.srcIP = q2.srcIP => q1.pageLen = q2.pageLen

\* C36: pages from different source terminals never interfere at their
\* destination: when A and B each send a page with the same pageID to D,
\* no packet of A's page is rejected as a duplicate slot, as a length
\* mismatch or as quarantined because of B's packets, and no page completes
\* from packets of both.  With unbounded buffers, no reassembler timed out
\* and each sender's packets acceptable alone, the terminal rejects nothing.
C36_SendersNeverInterfere ==
    (pc.stage = "terminal" /\ cfg = Loose /\ EachSenderAloneAccepted
        /\ terminals[Dest].pagesTimedOut = 0)
    => /\ terminals[Dest].packetsInDropped = 0
       /\ terminals[Dest].packetsInTimedOut = 0
       /\ err = "none"


\* ------------------------------------------------- hop-by-hop forwarding
\* The number of hops a packet for dst takes from cur when every router on
\* the way consults its own table; -1 when a router has no entry for dst or
\* the packet comes back to a router it has visited.
RECURSIVE Forward(_, _, _, _)
Forward(cur, dst, visited, hops) ==
    IF cur = dst THEN hops
    ELSE IF ~HasEntry(routers[cur].routingTable, dst) THEN -1
    ELSE LET nh == getNextHopIP(routers[cur].routingTable, dst)
         IN IF nh \in visited \/ nh \notin Neighbors(cur) THEN -1
            ELSE Forward(nh, dst, visited \cup {nh}, hops + 1)

AllRoutesComputed == pc.stage = "routes" /\ pc.r = Len(cRouters)

Least(S) == CHOOSE x \in S : \A y \in S : x <= y

RECURSIVE MinWeight(_, _, _)
MinWeight(a, b, avoid) ==
    IF a = b THEN 0
    ELSE LET rest(y) == MinWeight(y, b, avoid \cup {a})
         IN Least({INF} \cup
                  {Len(routers[a].outBuffer[y]) + rest(y) :
                      y \in {z \in Neighbors(a) \ (avoid \cup {a}) :
                                rest(z) < INF}})

TablesComplete ==
    \A r \in DOMAIN routers : \A dst \in DOMAIN routers \ {r} :
        /\ HasEntry(routers[r].routingTable, dst)
        /\ getNextHopIP(routers[r].routingTable, dst) \in Neighbors(r)

\* One of the buffers of router R is full.
SomeBufferFull(R) ==
    \/ isFull(R.inBuffer, cfg.inBufferCap)
    \/ isFull(R.locBuffer, cfg.locBufferCap)
    \/ \E n \in DOMAIN R.outBuffer : isFull(R.outBuffer[n], cfg.outBufferCap)

\* A step in which a router's dropped counter grows leaves one of that
\* router's buffers full: the enqueue that failed found it full, and the
\* handler that dropped takes nothing out of it afterwards.
DroppedOnlyWhenFull ==
    \A r \in DOMAIN routers :
        routers'[r].packetsDropped > routers[r].packetsDropped
            => SomeBufferFull(routers'[r])

PacketsInNetwork == getStats.packetsInFlight + HeldInReassemblers

\* C40: if every per-tick quota is at least 1 and ticks keep coming, every
\* packet eventually leaves the network: each packet enqueued by a
\* successful sendPage is eventually counted as processed, dropped or timed
\* out and none stays in a buffer or in a reassembler forever, even when
\* routes change while it is in flight: whenever packets are in the
\* network, a later state has none left.  Ticks stop coming when an
\* exception leaves simulate().
C40_EveryPacketLeaves ==
    (PacketsInNetwork > 0) ~> (PacketsInNetwork = 0 \/ err # "none")

\* After the traffic the network is empty again, in the triangle: packets
\* were forwarded between routers, a packet timed out in a router, a page
\* timed out in its reassembler and a page completed.
C40_Witness ==
    /\ pc = Start /\ err = "none"
    /\ currentTick > SendUntil
    /\ \A r \in DOMAIN routers : Cardinality(Neighbors(r)) = 2
    /\ PacketsInNetwork = 0
    /\ getStats.packetsGenerated = MaxPages * MaxPageLen
    /\ \E r \in DOMAIN routers : routers[r].packetsForwarded > 0
    /\ \E t \in DOMAIN terminals : terminals[t].pagesTimedOut > 0
    /\ \E t \in DOMAIN terminals : terminals[t].pagesCompleted > 0

====
